---- MODULE Spec2Model ----
(***************************************************************************)
(* x2telegram: the retention store (x2telegram/db/database.py).            *)
(*                                                                         *)
(* The state is the content of the two SQLite tables, followers and        *)
(* tweets_cache, with their AUTOINCREMENT counters, and `stored`, the      *)
(* number of store_tweet calls made, which bounds a behaviour.  Two        *)
(* history variables record the tweet ids for which                       *)
(* update_analysis_result and mark_as_sent have returned True.             *)
(*                                                                         *)
(* Every method of class Database is an operator named after it, from the  *)
(* tables and the arguments to the set of its possible outcomes: the       *)
(* tables after the call and the value returned.  Where SQL leaves an      *)
(* order open (ORDER BY created_at with equal keys) every order is an      *)
(* outcome.  Every method that writes is also an action, which applies one *)
(* outcome to the state.                                                   *)
(*                                                                         *)
(* Column inserted_at (DEFAULT CURRENT_TIMESTAMP) is written once by the   *)
(* engine and read by no statement of the program; it is not modelled.     *)
(***************************************************************************)
EXTENDS Integers, FiniteSets, Sequences, TLC

VARIABLES followers, followers_seq, tweets_cache, tweets_seq, stored,
          analysis_updated, marked_sent, pc,
          mirrors, working_mirrors, rate_limited_until, time,
          attempt, requests, fetch_result, selected, fetches, removed,
          runs, run_followers, run_enabled, offered, handled,
          pending_seen, send_attempts, sent_ok, db_open, run_log,
          page, parsed, procs, analyzer

\* The tables of class Database, with the history of its calls.
storeVars == <<followers, followers_seq, tweets_cache, tweets_seq, stored,
               analysis_updated, marked_sent>>

\* The fields of class RSSService (mirrors, working_mirrors and
\* rate_limited_until), the clock that time.time() reads, in seconds, and the
\* position of fetch_tweets_html: the index of its next attempt, the number
\* of HTTP requests it has made and how it ended.  selected is the last value
\* get_working_mirror returned and fetches the number of fetch_tweets_html
\* calls made, which bounds a behaviour.  removed is the set of mirrors that
\* the current fetch_tweets_html call has taken out of working_mirrors after
\* a failed request (a status other than 200 and 429, or an exception of
\* requests.get).
serviceVars == <<mirrors, working_mirrors, rate_limited_until, time,
                 attempt, requests, fetch_result, selected, fetches, removed>>

\* TweetProcessor.run: the number of runs made and the followers the run
\* has still to process (its local list), with the history of the run: the
\* ids of the followers it found enabled, the tweet ids it fetched that were
\* not stored yet, the (tweet id, follower id) pairs it gave to store_tweet,
\* the tweet ids get_unsent_analyzed_tweets listed, those it gave to
\* send_message and those for which send_message returned ok; db_open says
\* whether the connection of self.db is open and run_log lists the steps of
\* the run in the order they were made.
runVars == <<runs, run_followers, run_enabled, offered, handled,
             pending_seen, send_attempts, sent_ok, db_open, run_log>>

\* The HTML page given to parse_nitter_html and the list it returned.
parseVars == <<page, parsed>>

\* The variables no method of class Database writes: pc, the position of
\* the caller (a test script, fetch_tweets_html or TweetProcessor.run), the
\* variables of the scraping service, those of the run, those of the
\* parser and those of the concurrent processes.
\* The processes that use one database file at the same time, each with its
\* own connection: for every process, the statement it is to execute next
\* and the local variables of the method it is in.
procVars == <<procs>>

\* The call of AnalyzerService.analyze_with_ai in progress: the method it
\* is in, the local variables of the retry loop, the requests made so far
\* and, once it has ended, what it returned or raised.
analyzerVars == <<analyzer>>

callerVars == <<pc, serviceVars, runVars, parseVars, procVars, analyzerVars>>

vars == <<storeVars, callerVars>>

\* ------------------------------------------------------------------ bounds
\* store_tweet calls in one behaviour
MaxNew == 2

\* ------------------------------------------------------- program constants
\* cleanup_old_tweets(self, follower_id, keep_count=10)
DefaultKeepCount == 10
\* get_unsent_analyzed_tweets(self, limit=10)
DefaultUnsentLimit == 10
\* get_unanalyzed_tweets(self, limit=50)
DefaultUnanalyzedLimit == 50

\* ------------------------------------------------------------- SQL values
\* Python None / SQL NULL in the text columns.
NULL == "NULL"
\* Python None where a row id is expected (row ids start at 1).
NoneId == 0

\* A created_at value.  t is the SQLite storage class, k the position of the
\* value within its class, numeric says that a text value is a well-formed
\* number (such as "2024"), which a NUMERIC column converts.
Text(k) == [t |-> "text", numeric |-> FALSE, k |-> k]
Digits(k) == [t |-> "text", numeric |-> TRUE, k |-> k]
Integer(k) == [t |-> "integer", numeric |-> TRUE, k |-> k]

\* created_at DATETIME: a declared type without INT, CHAR, CLOB, TEXT, BLOB,
\* REAL, FLOA or DOUB has NUMERIC affinity, so a text that is a well-formed
\* integer is stored as an INTEGER and every other text stays TEXT.
NumericAffinity(v) ==
    IF v.t = "text" /\ v.numeric THEN Integer(v.k) ELSE v

\* ORDER BY created_at: INTEGER values sort before TEXT values, and values of
\* one storage class by their value.
SqlLess(a, b) ==
    \/ a.t = "integer" /\ b.t = "text"
    \/ a.t = b.t /\ a.k < b.k

\* ----------------------------------------------------------------- inputs
\* "zoe" is never a follower.
Usernames == {"alice", "zoe"}
FollowerIds == {1, 2}
\* The tweet ids that store_tweet is given.
StoredIds == {"t1", "t2"}
\* The ids that update_analysis_result and mark_as_sent are given: "b1" is
\* the tweet_id of the oldest row of FullCache, and "t1" is stored or not.
TargetIds == {"t1", "b1"}
AnalysisResults == {"relevant"}
\* datetime.now().isoformat()
Nows == {"2026-01-01T00:00:00"}
KeepCounts == {0, 1, DefaultKeepCount}
Limits == {0, 1, DefaultUnsentLimit, DefaultUnanalyzedLimit}

TweetUrl(i) ==
    IF i = "t1" THEN "https://x/status/t1"
    ELSE IF i = "t2" THEN "https://x/status/t2" ELSE "https://x/status/b"
TweetContent(i) ==
    IF i = "t1" THEN "content t1"
    ELSE IF i = "t2" THEN "content t2" ELSE "content b"

\* class Tweet: tweet_id, tweet_url, tweet_content, tweet_image, created_at
Tweet(i, c) ==
    [tweet_id |-> i, tweet_url |-> TweetUrl(i), tweet_content |-> TweetContent(i),
     tweet_image |-> NULL, created_at |-> c]

\* The tweets that store_tweet is given.  Text(11) is newer than every row of
\* FullCache, Text(1) equals the created_at of its oldest row, and Digits(5)
\* is the text "5".
Tweets ==
    {Tweet("t1", Text(11)), Tweet("t1", Text(1)),
     Tweet("t2", Text(11)), Tweet("t2", Digits(5))}

\* RSSService.__init__ with the configured mirrors: every mirror is working,
\* none is rate limited, and no fetch has been made.
NoLimits == [m \in {} |-> 0]

ServiceInit ==
    /\ mirrors = {"A", "B"}
    /\ working_mirrors = mirrors
    /\ rate_limited_until = NoLimits
    /\ time = 0
    /\ attempt = 0
    /\ requests = 0
    /\ fetch_result = "none"
    /\ selected = "none"
    /\ fetches = 0
    /\ removed = {}

\* TweetProcessor.__init__: no run has been made.
RunInit ==
    /\ runs = 0
    /\ run_followers = <<>>
    /\ run_enabled = {}
    /\ offered = {}
    /\ handled = {}
    /\ pending_seen = {}
    /\ send_attempts = {}
    /\ sent_ok = {}
    /\ db_open = FALSE
    /\ run_log = <<>>

\* The processes of one database file
Procs == {1, 2}

\* A process between two calls: no statement is pending.
Idle ==
    [pc |-> "idle", call |-> "none", tweet |-> NULL, username |-> NULL,
     follower_id |-> NoneId, keep_count |-> 0,
     sent_tweet_ids |-> {}, recent_tweet_ids |-> {}]

\* No process has called a method yet.
ProcsInit == procs = [p \in Procs |-> Idle]

\* max_retries, retry_delay and timeout of analyze_with_ollama: the defaults,
\* which analyze_with_ai never overrides.
MaxRetries == 3

RetryDelay == 2

Timeout == 30

\* A number of seconds that the loop multiplies by 1.5: num / den.
Seconds(n) == [num |-> n, den |-> 1]

\* x *= 1.5
TimesOneAndAHalf(x) == [num |-> 3 * x.num, den |-> 2 * x.den]

\* No call of analyze_with_ai has been made.
NotCalled ==
    [pc |-> "idle", provider |-> NULL, api_key |-> FALSE, image_url |-> FALSE,
     retry_count |-> 0, retry_delay |-> Seconds(RetryDelay),
     timeout |-> Seconds(Timeout), posts |-> 0, gets |-> 0, sleeps |-> 0,
     result |-> NULL, raised |-> NULL]

AnalyzerInit == analyzer = NotCalled

\* No page has been given to the parser.
NoPage == [name |-> "[document]", attrs |-> [a \in {} |-> <<>>], text |-> <<>>,
           kids |-> <<>>]

ParserInit ==
    /\ page = NoPage
    /\ parsed = <<>>

\* ------------------------------------------------------------------ tables
\* One row of tweets_cache as INSERT writes it: the columns not named by the
\* INSERT take their defaults (is_analyzed 0, is_sent_to_telegram 0, NULLs).
NewRow(id, tweet, follower_id) ==
    [id |-> id,
     follower_id |-> follower_id,
     tweet_id |-> tweet.tweet_id,
     tweet_url |-> tweet.tweet_url,
     tweet_content |-> tweet.tweet_content,
     tweet_image |-> tweet.tweet_image,
     created_at |-> NumericAffinity(tweet.created_at),
     is_analyzed |-> FALSE,
     analysis_result |-> NULL,
     is_sent_to_telegram |-> FALSE,
     sent_at |-> NULL]

BaseId == <<"b1", "b2", "b3", "b4", "b5", "b6", "b7", "b8", "b9", "b10">>

\* The store after DefaultKeepCount calls of store_tweet for follower 1 on an
\* empty table, with tweets b1 .. b10 created at Text(1) .. Text(10): rows
\* 1 .. 10, none analyzed, none sent.
FullCache ==
    {NewRow(i, [tweet_id |-> BaseId[i], tweet_url |-> TweetUrl(BaseId[i]),
                tweet_content |-> TweetContent(BaseId[i]), tweet_image |-> NULL,
                created_at |-> Text(i)], 1) : i \in 1..DefaultKeepCount}

\* add_follower("alice") and add_follower("bob") were called; the cache is
\* empty or holds FullCache.
Init ==
    /\ followers = {[id |-> 1, username |-> "alice", enabled |-> TRUE],
                    [id |-> 2, username |-> "bob", enabled |-> TRUE]}
    /\ followers_seq = 2
    /\ \/ tweets_cache = {} /\ tweets_seq = 0
       \/ tweets_cache = FullCache /\ tweets_seq = DefaultKeepCount
    /\ stored = 0
    /\ analysis_updated = {}
    /\ marked_sent = {}
    /\ pc = "idle"
    /\ ServiceInit
    /\ RunInit
    /\ ProcsInit
    /\ AnalyzerInit
    /\ ParserInit

\* ------------------------------------------------------------ cleanup
RowsOf(cache, follower_id) == {r \in cache : r.follower_id = follower_id}

\* SELECT id FROM tweets_cache WHERE follower_id = ? AND is_sent_to_telegram = 1
SentTweetIds(cache, follower_id) ==
    {r.id : r \in {x \in RowsOf(cache, follower_id) : x.is_sent_to_telegram}}

\* SELECT id ... WHERE follower_id = ? ORDER BY created_at DESC LIMIT keep_count:
\* the possible results, as sets of ids.  Rows newer than all but fewer than
\* keep_count rows are in every result; among the rows of equal created_at
\* at the cut, SQL leaves the choice open.
RecentTweetIds(cache, follower_id, keep_count) ==
    LET mine == RowsOf(cache, follower_id)
        Newer(r) == {x \in mine : SqlLess(r.created_at, x.created_at)}
        Peers(r) == {x \in mine : x.created_at = r.created_at}
        sure == {r \in mine :
                    Cardinality(Newer(r)) + Cardinality(Peers(r)) <= keep_count}
        cut == {r \in mine :
                    /\ Cardinality(Newer(r)) < keep_count
                    /\ Cardinality(Newer(r)) + Cardinality(Peers(r)) > keep_count}
    IN {{r.id : r \in sure \cup some} :
            some \in {c \in SUBSET cut :
                        Cardinality(c) = keep_count - Cardinality(sure)}}

\* cleanup_old_tweets without the query for the sent rows: only the most
\* recent rows are kept.
cleanup_recent_only(cache, follower_id, keep_count) ==
    IF Cardinality(RowsOf(cache, follower_id)) > keep_count
    THEN {LET kept == {r \in cache : r.follower_id # follower_id
                                       \/ r.id \in recent_tweet_ids}
          IN [cache |-> kept, ret |-> Cardinality(cache) - Cardinality(kept)] :
             recent_tweet_ids \in RecentTweetIds(cache, follower_id, keep_count)}
    ELSE {[cache |-> cache, ret |-> 0]}

\* cleanup_old_tweets with keep_ids built from the sent rows alone: the query
\* for the most recent rows is forgotten.
cleanup_sent_only(cache, follower_id, keep_count) ==
    LET keep_ids == SentTweetIds(cache, follower_id)
        kept == {r \in cache : r.follower_id # follower_id \/ r.id \in keep_ids}
    IN IF Cardinality(RowsOf(cache, follower_id)) > keep_count /\ keep_ids # {}
       THEN {[cache |-> kept, ret |-> Cardinality(cache) - Cardinality(kept)]}
       ELSE {[cache |-> cache, ret |-> 0]}

\* cleanup_old_tweets(follower_id, keep_count): the possible outcomes, each
\* the table after the call and the count returned (cursor.rowcount of the
\* DELETE, or 0 when no DELETE runs).
cleanup_old_tweets(cache, follower_id, keep_count) ==
    LET mine == RowsOf(cache, follower_id)
        total_tweets == Cardinality(mine)
    IN IF total_tweets > keep_count
       THEN {LET keep_ids == SentTweetIds(cache, follower_id) \cup recent_tweet_ids
                 kept == {r \in cache : r.follower_id # follower_id \/ r.id \in keep_ids}
             IN IF keep_ids # {}
                THEN [cache |-> kept,
                      ret |-> Cardinality(cache) - Cardinality(kept)]
                ELSE [cache |-> cache, ret |-> 0] :
                recent_tweet_ids \in RecentTweetIds(cache, follower_id, keep_count)}
       ELSE {[cache |-> cache, ret |-> 0]}

\* run_maintenance(): cleanup_old_tweets for every id of the followers table,
\* in the order of the ids, summing the counts.
RECURSIVE MaintenanceOutcomes(_, _)
MaintenanceOutcomes(cache, ids) ==
    IF ids = {}
    THEN {[cache |-> cache, ret |-> 0]}
    ELSE LET follower_id == CHOOSE i \in ids : \A j \in ids : i <= j
         IN UNION {{[cache |-> rest.cache, ret |-> one.ret + rest.ret] :
                      rest \in MaintenanceOutcomes(one.cache, ids \ {follower_id})} :
                     one \in cleanup_old_tweets(cache, follower_id, DefaultKeepCount)}

\* run_maintenance reading SELECT id FROM followers WHERE enabled = 1.
run_maintenance_enabled_only(cache, follower_rows) ==
    MaintenanceOutcomes(cache, {f.id : f \in {g \in follower_rows : g.enabled}})

run_maintenance(cache, follower_rows) ==
    MaintenanceOutcomes(cache, {f.id : f \in follower_rows})

\* ------------------------------------------------------------- writes
\* store_tweet without its call of cleanup_old_tweets.
store_without_cleanup(cache, seq, tweet, follower_id) ==
    {[cache |-> cache \cup {NewRow(seq + 1, tweet, follower_id)},
      seq |-> seq + 1, ret |-> seq + 1]}

\* store_tweet(tweet, follower_id): INSERT, commit, cleanup_old_tweets with
\* the default keep_count, return lastrowid.  The table declares no UNIQUE
\* constraint, so the INSERT never raises IntegrityError and the branch that
\* returns None is never taken.
store_tweet(cache, seq, tweet, follower_id) ==
    LET id == seq + 1
        inserted == cache \cup {NewRow(id, tweet, follower_id)}
    IN {[cache |-> out.cache, seq |-> id, ret |-> id] :
            out \in cleanup_old_tweets(inserted, follower_id, DefaultKeepCount)}

\* update_analysis_result with an UPDATE that lacks its WHERE clause.
update_analysis_every_row(cache, tweet_id, analysis_result) ==
    [cache |-> {[r EXCEPT !.is_analyzed = TRUE,
                          !.analysis_result = analysis_result] : r \in cache},
     ret |-> Cardinality({r \in cache : r.tweet_id = tweet_id}) > 0]

\* update_analysis_result(tweet_id, analysis_result): UPDATE ... WHERE
\* tweet_id = ?, then cursor.rowcount > 0.
update_analysis_result(cache, tweet_id, analysis_result) ==
    LET rowcount == Cardinality({r \in cache : r.tweet_id = tweet_id})
    IN [cache |-> {IF r.tweet_id = tweet_id
                   THEN [r EXCEPT !.is_analyzed = TRUE,
                                  !.analysis_result = analysis_result]
                   ELSE r : r \in cache},
        ret |-> rowcount > 0]

\* mark_as_sent with an UPDATE that also clears is_analyzed.
mark_as_sent_clears_analysis(cache, tweet_id, now) ==
    LET rowcount == Cardinality({r \in cache : r.tweet_id = tweet_id})
    IN [cache |-> {IF r.tweet_id = tweet_id
                   THEN [r EXCEPT !.is_sent_to_telegram = TRUE, !.sent_at = now,
                                  !.is_analyzed = FALSE]
                   ELSE r : r \in cache},
        ret |-> rowcount > 0]

\* mark_as_sent(tweet_id), with now the reading of the clock
mark_as_sent(cache, tweet_id, now) ==
    LET rowcount == Cardinality({r \in cache : r.tweet_id = tweet_id})
    IN [cache |-> {IF r.tweet_id = tweet_id
                   THEN [r EXCEPT !.is_sent_to_telegram = TRUE, !.sent_at = now]
                   ELSE r : r \in cache},
        ret |-> rowcount > 0]

\* remove_follower(username): DELETE FROM followers WHERE username = ?, then
\* cursor.rowcount > 0.  tweets_cache is not touched: the foreign key has no
\* ON DELETE CASCADE and no statement deletes the follower's rows.
remove_follower(follower_rows, username) ==
    LET rowcount == Cardinality({f \in follower_rows : f.username = username})
    IN [followers |-> {f \in follower_rows : f.username # username},
        ret |-> rowcount > 0]

\* add_follower with the UNIQUE constraint of username left out of the
\* table.
add_follower_twice(follower_rows, seq, username) ==
    [followers |-> follower_rows \cup
                      {[id |-> seq + 1, username |-> username, enabled |-> TRUE]},
     seq |-> seq + 1, ret |-> seq + 1]

\* add_follower(username): INSERT INTO followers (username); the id is the
\* next AUTOINCREMENT value and enabled takes its default 1.  username is
\* UNIQUE: for a username of the table the INSERT raises IntegrityError,
\* nothing is written and None is returned.  ret is the id of the Follower
\* returned, or NoneId.
add_follower(follower_rows, seq, username) ==
    IF \E f \in follower_rows : f.username = username
    THEN [followers |-> follower_rows, seq |-> seq, ret |-> NoneId]
    ELSE [followers |-> follower_rows \cup
                           {[id |-> seq + 1, username |-> username, enabled |-> TRUE]},
          seq |-> seq + 1, ret |-> seq + 1]

\* enable_follower(username, enabled): UPDATE followers SET enabled = ? WHERE
\* username = ?, then cursor.rowcount > 0.
enable_follower(follower_rows, username, enabled) ==
    LET rowcount == Cardinality({f \in follower_rows : f.username = username})
    IN [followers |-> {IF f.username = username
                       THEN [f EXCEPT !.enabled = enabled] ELSE f :
                          f \in follower_rows},
        ret |-> rowcount > 0]

\* The rows of a set in the order of their ids, as a SELECT without ORDER BY
\* reads a table.
RECURSIVE InIdOrder(_)
InIdOrder(rows) ==
    IF rows = {} THEN <<>>
    ELSE LET first == CHOOSE r \in rows : \A x \in rows : r.id <= x.id
         IN <<first>> \o InIdOrder(rows \ {first})

\* get_all_followers without its WHERE enabled = 1.
get_all_followers_unfiltered(follower_rows, enabled_only) ==
    InIdOrder(follower_rows)

\* get_all_followers(enabled_only): the list of Follower objects
get_all_followers(follower_rows, enabled_only) ==
    IF enabled_only
    THEN InIdOrder({f \in follower_rows : f.enabled})
    ELSE InIdOrder(follower_rows)

\* ------------------------------------------------------------- queries
\* tweet_exists looking only at the rows not yet sent.
tweet_exists_unsent(cache, tweet_id) ==
    {r \in cache : r.tweet_id = tweet_id /\ ~r.is_sent_to_telegram} # {}

\* tweet_exists(tweet_id): SELECT 1 FROM tweets_cache WHERE tweet_id = ?, then
\* fetchone() is not None.
tweet_exists(cache, tweet_id) ==
    LET fetched == {r \in cache : r.tweet_id = tweet_id}
    IN fetched # {}

\* The Tweet object the query methods build from a row.
RowTweet(r) ==
    [tweet_id |-> r.tweet_id, tweet_url |-> r.tweet_url,
     tweet_content |-> r.tweet_content, tweet_image |-> r.tweet_image,
     created_at |-> r.created_at]

\* The rows of `rows` in ORDER BY created_at DESC LIMIT limit: every sequence
\* SQL may return.
RECURSIVE OrderedLimit(_, _)
OrderedLimit(rows, limit) ==
    IF rows = {} \/ limit = 0
    THEN {<<>>}
    ELSE LET first == {r \in rows :
                         \A x \in rows : ~SqlLess(r.created_at, x.created_at)}
         IN UNION {{<<r>> \o s : s \in OrderedLimit(rows \ {r}, limit - 1)} :
                     r \in first}

\* get_unanalyzed_tweets(limit): the possible results, lists of
\* (tweet, follower_id).
get_unanalyzed_tweets(cache, limit) ==
    LET rows == {r \in cache : ~r.is_analyzed}
    IN {[i \in 1..Len(s) |-> <<RowTweet(s[i]), s[i].follower_id>>] :
            s \in OrderedLimit(rows, limit)}

\* get_unsent_analyzed_tweets(limit): the possible results, lists of
\* (tweet, follower_id, analysis_result).
get_unsent_analyzed_tweets(cache, limit) ==
    LET rows == {r \in cache : r.is_analyzed /\ ~r.is_sent_to_telegram}
    IN {[i \in 1..Len(s) |->
            <<RowTweet(s[i]), s[i].follower_id, s[i].analysis_result>>] :
            s \in OrderedLimit(rows, limit)}

\* ------------------------------------------------------------- actions
StoreTweet(tweet, follower_id) ==
    /\ stored < MaxNew
    /\ stored' = stored + 1
    /\ \E out \in store_tweet(tweets_cache, tweets_seq, tweet, follower_id) :
          /\ tweets_cache' = out.cache
          /\ tweets_seq' = out.seq
    /\ UNCHANGED <<followers, followers_seq, analysis_updated, marked_sent>>
    /\ UNCHANGED callerVars

UpdateAnalysisResult(tweet_id, analysis_result) ==
    LET out == update_analysis_result(tweets_cache, tweet_id, analysis_result)
    IN /\ tweets_cache' = out.cache
       /\ analysis_updated' =
             IF out.ret THEN analysis_updated \cup {tweet_id} ELSE analysis_updated
       /\ UNCHANGED <<followers, followers_seq, tweets_seq, stored, marked_sent>>
       /\ UNCHANGED callerVars

MarkAsSent(tweet_id, now) ==
    LET out == mark_as_sent(tweets_cache, tweet_id, now)
    IN /\ tweets_cache' = out.cache
       /\ marked_sent' = IF out.ret THEN marked_sent \cup {tweet_id} ELSE marked_sent
       /\ UNCHANGED <<followers, followers_seq, tweets_seq, stored,
                      analysis_updated>>
       /\ UNCHANGED callerVars

CleanupOldTweets(follower_id, keep_count) ==
    /\ \E out \in cleanup_old_tweets(tweets_cache, follower_id, keep_count) :
          tweets_cache' = out.cache
    /\ UNCHANGED <<followers, followers_seq, tweets_seq, stored,
                   analysis_updated, marked_sent>>
    /\ UNCHANGED callerVars

RunMaintenance ==
    /\ \E out \in run_maintenance(tweets_cache, followers) :
          tweets_cache' = out.cache
    /\ UNCHANGED <<followers, followers_seq, tweets_seq, stored,
                   analysis_updated, marked_sent>>
    /\ UNCHANGED callerVars

RemoveFollower(username) ==
    /\ followers' = remove_follower(followers, username).followers
    /\ UNCHANGED <<followers_seq, tweets_cache, tweets_seq, stored,
                   analysis_updated, marked_sent>>
    /\ UNCHANGED callerVars

\* enable_follower(username, enabled), from the command line
EnableFollower(username, enabled) ==
    /\ followers' = enable_follower(followers, username, enabled).followers
    /\ UNCHANGED <<followers_seq, tweets_cache, tweets_seq, stored,
                   analysis_updated, marked_sent>>
    /\ UNCHANGED callerVars

Next ==
    \/ \E tweet \in Tweets, follower_id \in FollowerIds : StoreTweet(tweet, follower_id)
    \/ \E tweet_id \in TargetIds, r \in AnalysisResults :
          UpdateAnalysisResult(tweet_id, r)
    \/ \E tweet_id \in TargetIds, now \in Nows : MarkAsSent(tweet_id, now)
    \/ \E follower_id \in FollowerIds, keep_count \in KeepCounts :
          CleanupOldTweets(follower_id, keep_count)
    \/ RunMaintenance
    \/ \E username \in Usernames : RemoveFollower(username)
    \/ \E username \in Usernames, enabled \in BOOLEAN :
          EnableFollower(username, enabled)

Spec == Init /\ [][Next]_vars

\* =================================================================
\* Properties of the retention store
\* =================================================================
NonDelivered(cache, follower_id) ==
    {r \in RowsOf(cache, follower_id) : ~r.is_sent_to_telegram}

Delivered(cache) == {r \in cache : r.is_sent_to_telegram}

\* Some row has been deleted: fewer rows than row ids given out.
SomeRowDeleted == Cardinality(tweets_cache) < tweets_seq

\* Row r is older than keep_count rows of its follower.
OutsideRecent(cache, r, keep_count) ==
    Cardinality({x \in RowsOf(cache, r.follower_id) :
                    SqlLess(r.created_at, x.created_at)}) >= keep_count

\* Every id that is asked about: the ids stored, the ids of FullCache and one
\* that is never stored.
AskedIds == StoredIds \cup {BaseId[i] : i \in 1..DefaultKeepCount} \cup {"absent"}

\* C1: after any sequence of store_tweet, mark_as_sent and cleanup_old_tweets
\* calls, every follower has at most keep_count (10) rows that are not sent.
C1_NonDeliveredBounded ==
    \A follower_id \in FollowerIds :
        Cardinality(NonDelivered(tweets_cache, follower_id)) <= DefaultKeepCount

\* store_tweet has run and its cleanup has deleted a row, leaving a follower
\* with exactly keep_count rows not sent beside a sent one.
C1_Witness ==
    /\ stored > 0
    /\ SomeRowDeleted
    /\ \E follower_id \in FollowerIds :
          /\ Cardinality(NonDelivered(tweets_cache, follower_id)) = DefaultKeepCount
          /\ \E r \in RowsOf(tweets_cache, follower_id) : r.is_sent_to_telegram

\* C2: no cleanup deletes a sent row: whether cleanup_old_tweets is called by
\* itself, by store_tweet or by run_maintenance, every row that is sent
\* before the call is in the table, unchanged, after it.
C2_DeliveredSurvivePrune ==
    /\ \A follower_id \in FollowerIds, keep_count \in KeepCounts :
          \A out \in cleanup_old_tweets(tweets_cache, follower_id, keep_count) :
              Delivered(tweets_cache) \subseteq out.cache
    /\ \A tweet \in Tweets, follower_id \in FollowerIds :
          \A out \in store_tweet(tweets_cache, tweets_seq, tweet, follower_id) :
              Delivered(tweets_cache) \subseteq out.cache
    /\ \A out \in run_maintenance(tweets_cache, followers) :
          Delivered(tweets_cache) \subseteq out.cache

\* A cleanup triggered by store_tweet has deleted a row while a sent row older
\* than keep_count rows of its follower is still stored.
C2_Witness ==
    /\ stored > 0
    /\ SomeRowDeleted
    /\ \E r \in Delivered(tweets_cache) :
          OutsideRecent(tweets_cache, r, DefaultKeepCount)

\* C5: tweet_exists(x) is true iff some stored row has tweet_id x, whatever
\* the row's follower, also when the follower has been removed.
C5_ExistsIffStored ==
    \A x \in AskedIds :
        tweet_exists(tweets_cache, x) <=> x \in {r.tweet_id : r \in tweets_cache}

\* Follower 1 has been removed, a sent row of it is still stored and found,
\* and another id is not stored.
C5_Witness ==
    /\ 1 \notin {f.id : f \in followers}
    /\ \E r \in RowsOf(tweets_cache, 1) :
          r.is_sent_to_telegram /\ tweet_exists(tweets_cache, r.tweet_id)
    /\ ~tweet_exists(tweets_cache, "t1")

\* S holds Min(keep_count, |mine|) rows of mine, none older than a row of
\* mine left out: a possible "keep_count most recent rows by created_at".
IsMostRecent(S, mine, keep_count) ==
    /\ S \subseteq mine
    /\ Cardinality(S) =
          (IF keep_count < Cardinality(mine) THEN keep_count ELSE Cardinality(mine))
    /\ \A a \in S, b \in mine \ S : ~SqlLess(a.created_at, b.created_at)

\* C3: cleanup_old_tweets(S, k) leaves for S exactly its sent rows and its k
\* most recent rows, deletes every other row of S, touches no other row and
\* returns the number of rows it deleted, for every k >= 0.
C3_PruneKeepsExactlyUnion ==
    \A follower_id \in FollowerIds, keep_count \in KeepCounts :
        \A out \in cleanup_old_tweets(tweets_cache, follower_id, keep_count) :
            LET mine == RowsOf(tweets_cache, follower_id)
                after == RowsOf(out.cache, follower_id)
                sent == {r \in mine : r.is_sent_to_telegram}
            IN /\ sent \subseteq after
               /\ after \subseteq mine
               /\ \E also \in SUBSET sent :
                     IsMostRecent((after \ sent) \cup also, mine, keep_count)
               /\ out.cache \ after = tweets_cache \ mine
               /\ out.ret = Cardinality(mine) - Cardinality(after)

\* C4: no two stored rows share a tweet_id, and store_tweet of a tweet_id
\* that is already stored returns None and adds no row.
C4_OneRowPerExternalId ==
    /\ \A r1, r2 \in tweets_cache : r1.tweet_id = r2.tweet_id => r1 = r2
    /\ \A tweet \in Tweets, follower_id \in FollowerIds :
          tweet_exists(tweets_cache, tweet.tweet_id) =>
             \A out \in store_tweet(tweets_cache, tweets_seq, tweet, follower_id) :
                 out.ret = NoneId /\ out.cache = tweets_cache

\* C6: after store_tweet has returned a row id, tweet_exists finds the
\* tweet's id.
C6_StoredThenExists ==
    \A tweet \in Tweets, follower_id \in FollowerIds :
        \A out \in store_tweet(tweets_cache, tweets_seq, tweet, follower_id) :
            out.ret # NoneId => tweet_exists(out.cache, tweet.tweet_id)

\* C7: after store_tweet has returned a row id, get_unanalyzed_tweets returns
\* the tweet as it was given, with its follower id, and so does
\* get_unsent_analyzed_tweets once update_analysis_result has been called.
C7_RoundTrip ==
    \A tweet \in Tweets, follower_id \in FollowerIds :
        \A out \in store_tweet(tweets_cache, tweets_seq, tweet, follower_id) :
            out.ret # NoneId =>
               /\ \A res \in get_unanalyzed_tweets(out.cache, DefaultUnanalyzedLimit) :
                     \E i \in 1..Len(res) : res[i] = <<tweet, follower_id>>
               /\ \A a \in AnalysisResults :
                     \A res \in get_unsent_analyzed_tweets(
                                   update_analysis_result(out.cache, tweet.tweet_id, a).cache,
                                   DefaultUnsentLimit) :
                         \E i \in 1..Len(res) : res[i] = <<tweet, follower_id, a>>

\* res is in the order newest created_at first.
NewestFirst(res) ==
    \A i, j \in 1..Len(res) :
        i < j => ~SqlLess(res[i][1].created_at, res[j][1].created_at)

\* C8: get_unsent_analyzed_tweets(limit) returns at most limit entries, each a
\* row that is analyzed and not sent, newest first, and none with a tweet_id
\* for which mark_as_sent has returned True.
C8_UnsentAnalyzed ==
    \A limit \in Limits :
        \A res \in get_unsent_analyzed_tweets(tweets_cache, limit) :
            /\ Len(res) <= limit
            /\ \A i \in 1..Len(res) :
                  \E r \in tweets_cache :
                      /\ r.is_analyzed /\ ~r.is_sent_to_telegram
                      /\ res[i] = <<RowTweet(r), r.follower_id, r.analysis_result>>
            /\ NewestFirst(res)
            /\ \A i \in 1..Len(res) : res[i][1].tweet_id \notin marked_sent

\* C9: get_unanalyzed_tweets(limit) returns at most limit entries, each a row
\* that is not analyzed, newest first, and none with a tweet_id for which
\* update_analysis_result has returned True; and the tweet that store_tweet
\* has just stored is among them.
C9_Unanalyzed ==
    /\ \A limit \in Limits :
          \A res \in get_unanalyzed_tweets(tweets_cache, limit) :
              /\ Len(res) <= limit
              /\ \A i \in 1..Len(res) :
                    \E r \in tweets_cache :
                        ~r.is_analyzed /\ res[i] = <<RowTweet(r), r.follower_id>>
              /\ NewestFirst(res)
              /\ \A i \in 1..Len(res) : res[i][1].tweet_id \notin analysis_updated
    /\ \A tweet \in Tweets, follower_id \in FollowerIds :
          \A out \in store_tweet(tweets_cache, tweets_seq, tweet, follower_id) :
              out.ret # NoneId =>
                 \A res \in get_unanalyzed_tweets(out.cache, DefaultUnanalyzedLimit) :
                     \E i \in 1..Len(res) : res[i][1].tweet_id = tweet.tweet_id

\* r2 is r but for the columns in `changed`.
SameBut(r, r2, changed) ==
    /\ r2.id = r.id
    /\ r2.follower_id = r.follower_id
    /\ r2.tweet_id = r.tweet_id
    /\ r2.tweet_url = r.tweet_url
    /\ r2.tweet_content = r.tweet_content
    /\ r2.tweet_image = r.tweet_image
    /\ r2.created_at = r.created_at
    /\ "is_analyzed" \in changed \/ r2.is_analyzed = r.is_analyzed
    /\ "analysis_result" \in changed \/ r2.analysis_result = r.analysis_result
    /\ "is_sent_to_telegram" \in changed
          \/ r2.is_sent_to_telegram = r.is_sent_to_telegram
    /\ "sent_at" \in changed \/ r2.sent_at = r.sent_at

\* out.cache is cache with the rows of tweet_id x changed in the columns of
\* `changed` alone, and every other row as it was.
OnlyColumnsOf(cache, out, x, changed) ==
    /\ {r.id : r \in out.cache} = {r.id : r \in cache}
    /\ Cardinality(out.cache) = Cardinality(cache)
    /\ \A r \in cache :
          IF r.tweet_id = x
          THEN \E r2 \in out.cache : SameBut(r, r2, changed)
          ELSE r \in out.cache

\* C10: update_analysis_result(x, a) and mark_as_sent(x) return True iff a
\* row with tweet_id x is stored; when they return False the table is
\* unchanged; otherwise the first sets is_analyzed and analysis_result, the
\* second is_sent_to_telegram and sent_at, of the rows with tweet_id x, and
\* nothing else changes.
C10_UpdateFrame ==
    \A x \in TargetIds \cup {"absent"} :
        /\ \A a \in AnalysisResults :
              LET out == update_analysis_result(tweets_cache, x, a)
              IN /\ out.ret <=> x \in {r.tweet_id : r \in tweets_cache}
                 /\ ~out.ret => out.cache = tweets_cache
                 /\ OnlyColumnsOf(tweets_cache, out, x,
                                  {"is_analyzed", "analysis_result"})
                 /\ \A r \in out.cache :
                       r.tweet_id = x => r.is_analyzed /\ r.analysis_result = a
        /\ \A now \in Nows :
              LET out == mark_as_sent(tweets_cache, x, now)
              IN /\ out.ret <=> x \in {r.tweet_id : r \in tweets_cache}
                 /\ ~out.ret => out.cache = tweets_cache
                 /\ OnlyColumnsOf(tweets_cache, out, x,
                                  {"is_sent_to_telegram", "sent_at"})
                 /\ \A r \in out.cache :
                       r.tweet_id = x => r.is_sent_to_telegram /\ r.sent_at = now

\* Both methods have returned True for "t1", whose row is stored beside a row
\* of another tweet_id that is neither analyzed nor sent, and "b1" is no
\* longer stored, so that a call for it returns False.
C10_Witness ==
    /\ "t1" \in analysis_updated
    /\ "t1" \in marked_sent
    /\ \E r \in tweets_cache :
          r.tweet_id = "t1" /\ r.is_analyzed /\ r.is_sent_to_telegram
    /\ \E r \in tweets_cache :
          r.tweet_id # "t1" /\ ~r.is_analyzed /\ ~r.is_sent_to_telegram
    /\ ~tweet_exists(tweets_cache, "b1")

\* C18: no stored row has the id of a follower that remove_follower has
\* removed: every row's follower_id is the id of a row of followers, and
\* tweet_exists finds no tweet_id of a removed follower's rows.
C18_RemoveCascades ==
    LET present == {f.id : f \in followers}
    IN /\ \A r \in tweets_cache : r.follower_id \in present
       /\ \A x \in AskedIds :
             tweet_exists(tweets_cache, x) =>
                \E r \in tweets_cache : r.tweet_id = x /\ r.follower_id \in present

\* =================================================================
\* The storage limit script (tests/test_db.py, "tweet storage limit"):
\* fifteen tweets of one follower are stored, three of them are marked as
\* sent, and cleanup_old_tweets is called.
\* =================================================================
\* for i in range(1, 16)
ScenarioCount == 15
\* follower = db.add_follower("testuser"): the first follower of the table
ScenarioSource == 1
\* The tweets marked as sent.
ScenarioSent == {3, 6, 9}

ScenarioId ==
    <<"x1", "x2", "x3", "x4", "x5", "x6", "x7", "x8", "x9", "x10",
      "x11", "x12", "x13", "x14", "x15">>

\* Tweet i is created i minutes before now: tweet 1 is the newest.
ScenarioTweet(i) == Tweet(ScenarioId[i], Text(ScenarioCount + 1 - i))

\* The script stores the tweets from the newest to the oldest, or the other
\* way round.
ScenarioOrders == {"newest_first", "oldest_first"}

ScenarioInit ==
    /\ followers = {[id |-> 1, username |-> "alice", enabled |-> TRUE],
                    [id |-> 2, username |-> "bob", enabled |-> TRUE]}
    /\ followers_seq = 2
    /\ tweets_cache = {}
    /\ tweets_seq = 0
    /\ stored = 0
    /\ analysis_updated = {}
    /\ marked_sent = {}
    /\ pc \in ScenarioOrders
    /\ ServiceInit
    /\ RunInit
    /\ ProcsInit
    /\ AnalyzerInit
    /\ ParserInit

\* The tweets stored so far.
ScenarioStored ==
    IF pc = "newest_first" THEN 1..stored
    ELSE (ScenarioCount - stored + 1)..ScenarioCount

\* db.store_tweet(tweet, follower.id) for the next tweet of the script
ScenarioStore ==
    /\ pc \in ScenarioOrders
    /\ stored < ScenarioCount
    /\ LET i == IF pc = "newest_first" THEN stored + 1 ELSE ScenarioCount - stored
       IN \E out \in store_tweet(tweets_cache, tweets_seq, ScenarioTweet(i),
                                 ScenarioSource) :
             /\ tweets_cache' = out.cache
             /\ tweets_seq' = out.seq
    /\ stored' = stored + 1
    /\ UNCHANGED <<followers, followers_seq, analysis_updated, marked_sent, pc>>
    /\ UNCHANGED <<serviceVars, runVars, parseVars, procVars, analyzerVars>>

\* db.mark_as_sent(f"test_tweet_{i}") for a tweet already stored
ScenarioMark(i, now) ==
    /\ pc \in ScenarioOrders
    /\ i \in ScenarioStored
    /\ ScenarioId[i] \notin marked_sent
    /\ LET out == mark_as_sent(tweets_cache, ScenarioId[i], now)
       IN /\ tweets_cache' = out.cache
          /\ marked_sent' =
                IF out.ret THEN marked_sent \cup {ScenarioId[i]} ELSE marked_sent
    /\ UNCHANGED <<followers, followers_seq, tweets_seq, stored,
                   analysis_updated, pc>>
    /\ UNCHANGED <<serviceVars, runVars, parseVars, procVars, analyzerVars>>

\* db.cleanup_old_tweets(follower.id, 10), once every tweet is stored and the
\* three are marked
ScenarioPrune ==
    /\ pc \in ScenarioOrders
    /\ stored = ScenarioCount
    /\ \A i \in ScenarioSent : ScenarioId[i] \in marked_sent
    /\ \E out \in cleanup_old_tweets(tweets_cache, ScenarioSource, DefaultKeepCount) :
          tweets_cache' = out.cache
    /\ pc' = "done"
    /\ UNCHANGED <<followers, followers_seq, tweets_seq, stored,
                   analysis_updated, marked_sent>>
    /\ UNCHANGED <<serviceVars, runVars, parseVars, procVars, analyzerVars>>

ScenarioNext ==
    \/ ScenarioStore
    \/ \E i \in ScenarioSent, now \in Nows : ScenarioMark(i, now)
    \/ ScenarioPrune

ScenarioA == ScenarioInit /\ [][ScenarioNext]_vars

\* The tweets of the script that are stored for its follower.
ScenarioRemaining ==
    {i \in 1..ScenarioCount :
        \E r \in RowsOf(tweets_cache, ScenarioSource) : r.tweet_id = ScenarioId[i]}

\* The statement as first made: when the script has run, 13 tweets remain for
\* the follower, tweets 3, 6 and 9 among them.
C11_ThirteenRemain ==
    pc = "done" =>
       /\ Cardinality(RowsOf(tweets_cache, ScenarioSource)) = 13
       /\ ScenarioSent \subseteq ScenarioRemaining

\* C11: when the script has run (15 tweets stored for one follower, tweet 1
\* the newest, tweets 3, 6 and 9 marked as sent, cleanup_old_tweets(X, 10)
\* called), exactly 10 tweets remain for the follower: the 10 newest, tweets
\* 1 to 10, with tweets 3, 6 and 9, marked as sent, among them.
C11_TenRemain ==
    pc = "done" =>
       /\ Cardinality(RowsOf(tweets_cache, ScenarioSource)) = DefaultKeepCount
       /\ ScenarioRemaining = 1..DefaultKeepCount
       /\ ScenarioSent \subseteq ScenarioRemaining
       /\ \A r \in RowsOf(tweets_cache, ScenarioSource) :
             r.is_sent_to_telegram <=>
                r.tweet_id \in {ScenarioId[i] : i \in ScenarioSent}

\* The script has run to its end: 15 rows were inserted, the three tweets are
\* sent and stored, and rows have been deleted.
C11_Witness ==
    /\ pc = "done"
    /\ tweets_seq = ScenarioCount
    /\ \A i \in ScenarioSent :
          \E r \in tweets_cache : r.tweet_id = ScenarioId[i] /\ r.is_sent_to_telegram
    /\ Cardinality(tweets_cache) < tweets_seq

\* =================================================================
\* The scraping service (x2telegram/services/rss.py): the pool of mirrors
\* and fetch_tweets_html.  The clock counts whole seconds.  An HTTP exchange
\* takes no time on this clock; time passes in time.sleep and between calls.
\*
\* A service is used in one of two ways.  The program calls
\* fetch_tweets_html, which calls get_working_mirror and mark_rate_limited
\* (pc is "idle" between two fetches and "fetching" within one).  A script
\* calls get_working_mirror and mark_rate_limited themselves, as the
\* scenario of the mirror pool does (pc is "pool").
\* =================================================================
\* RSSService(mirrors, timeout, retry_count): the retry_count given
RetryCount == 4
\* fetch_tweets_html calls in one behaviour
MaxFetch == 1
\* The clock reading up to which time passes between calls and
\* mark_rate_limited is called from outside fetch_tweets_html.
MaxTime == 6

\* response.headers.get('Retry-After', 60)
DefaultRetryAfter == 60
\* if sleep_time > 60
ResetThreshold == 60
\* The depth at which CPython ends the recursion of get_working_mirror with
\* a RecursionError (sys.getrecursionlimit(), less the frames of the callers).
RecursionLimit == 1000

\* The lists of mirrors an RSSService is made with.
MirrorPools == {{"A"}, {"A", "B"}}
Exceptions == {"ValueError", "RecursionError"}
\* The retry_after values mark_rate_limited is given from outside
\* fetch_tweets_html.
DirectRetryAfters == {5, 120}
\* The usernames fetch_tweets_html is given.
FetchUsernames == {"", "@alice"}

\* What requests.get does: it returns a response, with its status_code,
\* its Retry-After header (NULL when absent) and whether parse_nitter_html
\* finds tweets in its text, or it raises.
Response(status_code, retry_after, tweets) ==
    [kind |-> "response", status_code |-> status_code,
     retry_after |-> retry_after, tweets |-> tweets]
Raises(kind) ==
    [kind |-> kind, status_code |-> 0, retry_after |-> NULL, tweets |-> FALSE]
Responses ==
    {Response(200, NULL, TRUE), Response(200, NULL, FALSE),
     Response(429, NULL, FALSE), Response(429, "5", FALSE),
     Response(429, "3600", FALSE),
     Response(429, "Wed, 21 Oct 2015 07:28:00 GMT", FALSE),
     Response(500, NULL, FALSE),
     Raises("Timeout"), Raises("ConnectionError")}

\* int(response.headers.get('Retry-After', 60)): the number, or the
\* ValueError that int raises for a header that is not a decimal integer
\* (such as an HTTP date).
RetryAfterOf(response) ==
    IF response.retry_after = NULL
    THEN [raised |-> "none", value |-> DefaultRetryAfter]
    ELSE IF response.retry_after = "5" THEN [raised |-> "none", value |-> 5]
    ELSE IF response.retry_after = "3600" THEN [raised |-> "none", value |-> 3600]
    ELSE [raised |-> "ValueError", value |-> 0]

SetMin(S) == CHOOSE x \in S : \A y \in S : x <= y

\* mark_rate_limited(mirror, retry_after): the dict after the call
mark_rate_limited(limits, now, mirror, retry_after) ==
    [m \in DOMAIN limits \cup {mirror} |->
        IF m = mirror THEN now + retry_after ELSE limits[m]]

\* The list comprehension of get_working_mirror.
available_mirrors(working, limits, current_time) ==
    {mirror \in working :
        mirror \notin DOMAIN limits \/ current_time > limits[mirror]}

\* get_working_mirror with the comparison of the filter turned round.
get_working_mirror_early(pool, working, limits, current_time) ==
    LET available == {mirror \in working :
                        mirror \notin DOMAIN limits \/ current_time < limits[mirror]}
    IN {[ret |-> m, working_mirrors |-> working, rate_limited_until |-> limits,
         time |-> current_time] : m \in IF available = {} THEN pool ELSE available}

\* get_working_mirror without the filter: random.choice(self.working_mirrors).
get_working_mirror_any(pool, working, limits, current_time) ==
    {[ret |-> m, working_mirrors |-> working, rate_limited_until |-> limits,
      time |-> current_time] : m \in IF working = {} THEN pool ELSE working}

\* get_working_mirror(): the possible outcomes, each the value returned (a
\* mirror, or the exception raised) with the fields and the clock after the
\* call.  pool is self.mirrors.
\*
\* The method calls itself after time.sleep(sleep_time).  The first sleep
\* ends after the soonest expiry in rate_limited_until, so every later call
\* finds that expiry passed, computes sleep_time = 1 and never resets: the
\* calls go on, a second apart, until a mirror of working_mirrors is
\* available.  `calls` is the number of recursive calls this takes; the
\* recursion itself is summed here, and ends with RecursionError when it is
\* deeper than RecursionLimit.
get_working_mirror(pool, working, limits, current_time) ==
    LET available == available_mirrors(working, limits, current_time)
        Outcome(ret, w, l, t) ==
            [ret |-> ret, working_mirrors |-> w, rate_limited_until |-> l, time |-> t]
    IN IF available # {}
       THEN {Outcome(m, working, limits, current_time) : m \in available}
       ELSE IF DOMAIN limits = {}
       THEN \* min() of an empty sequence
            {Outcome("ValueError", working, limits, current_time)}
       ELSE LET next_available_time == SetMin({limits[m] : m \in DOMAIN limits})
                wait == next_available_time - current_time
                sleep_time == (IF wait > 0 THEN wait ELSE 0) + 1
                woken == current_time + sleep_time
                \* the seconds after the first sleep until a working mirror
                \* is available
                more == IF working = {} THEN RecursionLimit
                        ELSE LET soonest == SetMin({limits[m] : m \in working})
                             IN IF soonest + 1 > woken THEN soonest + 1 - woken ELSE 0
                calls == 1 + more
            IN IF sleep_time > ResetThreshold
               THEN {Outcome(m, pool, NoLimits, current_time) : m \in pool}
               ELSE IF calls >= RecursionLimit
               THEN {Outcome("RecursionError", working, limits,
                             woken + RecursionLimit - 1)}
               ELSE {Outcome(m, working, limits, woken + more) :
                        m \in available_mirrors(working, limits, woken + more)}

\* One pass of the loop of fetch_tweets_html, for attempt number att
\* (from 0) and the given outcome of requests.get: the possible states after
\* it.  result is "tweets" or "failed" when the method returns in this
\* pass, "raised" when an exception leaves it, and "none" when the loop goes
\* on.
fetch_attempt(pool, retry_count, working, limits, now, att, reqs, response) ==
    LET reset == IF working = {} THEN pool ELSE working
        Ended(result, w, l, t, r, sel) ==
            [working_mirrors |-> w, rate_limited_until |-> l, time |-> t,
             attempt |-> att, requests |-> r, result |-> result, selected |-> sel,
             backoff |-> 0]
        \* the end of the pass, after time.sleep(slept) if slept is not 0: the
        \* next attempt, or the return after the loop
        Continue(w, l, t, slept, sel) ==
            [working_mirrors |-> w, rate_limited_until |-> l, time |-> t + slept,
             attempt |-> att + 1, requests |-> reqs + 1,
             result |-> IF att + 1 < retry_count THEN "none" ELSE "failed",
             selected |-> sel, backoff |-> slept]
        \* backoff_time, slept at the end of the try statement
        Backoff == IF att < retry_count - 1 THEN 2 ^ att ELSE 0
        \* continue: the rest of the pass is skipped
        Skipped == 0
        After(sel) ==
            LET mirror == sel.ret
                w == sel.working_mirrors
                l == sel.rate_limited_until
                t == sel.time
            IN IF mirror \in Exceptions
               THEN Ended("raised", w, l, t, reqs, mirror)
               ELSE IF response.kind # "response"
               THEN Continue(w \ {mirror}, l, t, Backoff, mirror)
               ELSE IF response.status_code = 429
               THEN IF RetryAfterOf(response).raised # "none"
                    THEN Continue(w \ {mirror}, l, t, Backoff, mirror)
                    ELSE Continue(w \ {mirror},
                                  mark_rate_limited(l, t, mirror,
                                                    RetryAfterOf(response).value),
                                  t, Skipped, mirror)
               ELSE IF response.status_code # 200
               THEN Continue(w \ {mirror}, l, t, Skipped, mirror)
               ELSE IF response.tweets
               THEN Ended("tweets", w, l, t, reqs + 1, mirror)
               ELSE Continue(w, l, t, Backoff, mirror)
    IN IF working = {} /\ att = retry_count - 1
       THEN {Ended("failed", reset, limits, now, reqs, selected)}
       ELSE {After(sel) : sel \in get_working_mirror(pool, reset, limits, now)}

\* The outcomes of requests.get after which fetch_tweets_html removes the
\* mirror as failed: a status other than 200 and 429, Timeout,
\* ConnectionError.
Removes(response) ==
    \/ response.kind # "response"
    \/ response.status_code \notin {200, 429}

MirrorInit ==
    /\ followers = {[id |-> 1, username |-> "alice", enabled |-> TRUE],
                    [id |-> 2, username |-> "bob", enabled |-> TRUE]}
    /\ followers_seq = 2
    /\ tweets_cache = {}
    /\ tweets_seq = 0
    /\ stored = 0
    /\ analysis_updated = {}
    /\ marked_sent = {}
    /\ pc \in {"idle", "pool"}
    /\ mirrors \in MirrorPools
    /\ working_mirrors = mirrors
    /\ rate_limited_until = NoLimits
    /\ time = 0
    /\ attempt = 0
    /\ requests = 0
    /\ fetch_result = "none"
    /\ selected = "none"
    /\ fetches = 0
    /\ removed = {}
    /\ RunInit
    /\ ProcsInit
    /\ AnalyzerInit
    /\ ParserInit

\* A second passes between two calls of the script.
Tick ==
    /\ pc = "pool"
    /\ time < MaxTime
    /\ time' = time + 1
    /\ UNCHANGED <<storeVars, pc, mirrors, working_mirrors, rate_limited_until,
                   attempt, requests, fetch_result, selected, fetches, removed>>
    /\ UNCHANGED <<runVars, parseVars, procVars, analyzerVars>>

\* mark_rate_limited(mirror, retry_after), called by itself
MarkRateLimited(mirror, retry_after) ==
    /\ pc = "pool"
    /\ time < MaxTime
    /\ mirror \in mirrors
    /\ rate_limited_until' =
          mark_rate_limited(rate_limited_until, time, mirror, retry_after)
    /\ UNCHANGED <<storeVars, pc, mirrors, working_mirrors, time,
                   attempt, requests, fetch_result, selected, fetches, removed>>
    /\ UNCHANGED <<runVars, parseVars, procVars, analyzerVars>>

\* get_working_mirror(), called by itself
GetWorkingMirror ==
    /\ pc = "pool"
    /\ time < MaxTime
    /\ \E out \in get_working_mirror(mirrors, working_mirrors,
                                     rate_limited_until, time) :
          /\ selected' = out.ret
          /\ working_mirrors' = out.working_mirrors
          /\ rate_limited_until' = out.rate_limited_until
          /\ time' = out.time
    /\ UNCHANGED <<storeVars, pc, mirrors, attempt, requests, fetch_result, fetches,
                   removed>>
    /\ UNCHANGED <<runVars, parseVars, procVars, analyzerVars>>

\* fetch_tweets_html(username) up to its loop
FetchStart(username) ==
    /\ pc = "idle"
    /\ fetches < MaxFetch
    /\ fetches' = fetches + 1
    /\ attempt' = 0
    /\ requests' = 0
    /\ removed' = {}
    /\ IF username = ""
       THEN fetch_result' = "failed" /\ pc' = "idle"
       ELSE fetch_result' = "none" /\ pc' = "fetching"
    /\ UNCHANGED <<storeVars, mirrors, working_mirrors, rate_limited_until, time,
                   selected>>
    /\ UNCHANGED <<runVars, parseVars, procVars, analyzerVars>>

\* One pass of the loop of fetch_tweets_html, with the return that ends it.
FetchAttempt(response) ==
    /\ pc = "fetching"
    /\ \E out \in fetch_attempt(mirrors, RetryCount, working_mirrors,
                                rate_limited_until, time, attempt, requests,
                                response) :
          /\ working_mirrors' = out.working_mirrors
          /\ rate_limited_until' = out.rate_limited_until
          /\ time' = out.time
          /\ attempt' = out.attempt
          /\ requests' = out.requests
          /\ fetch_result' = out.result
          /\ selected' = out.selected
          /\ removed' = IF out.requests > requests /\ Removes(response)
                        THEN removed \cup {out.selected} ELSE removed
          /\ pc' = IF out.result = "none" THEN "fetching" ELSE "idle"
    /\ UNCHANGED <<storeVars, mirrors, fetches>>
    /\ UNCHANGED <<runVars, parseVars, procVars, analyzerVars>>

MirrorNext ==
    \/ Tick
    \/ \E mirror \in {"A", "B"}, retry_after \in DirectRetryAfters :
          MarkRateLimited(mirror, retry_after)
    \/ GetWorkingMirror
    \/ \E username \in FetchUsernames : FetchStart(username)
    \/ \E response \in Responses : FetchAttempt(response)

MirrorSpec == MirrorInit /\ [][MirrorNext]_vars

\* -------------------------------------------------- properties of the pool
\* Mirror m is rate limited at time t: it was marked at some time with some
\* retry_after, and t is before the sum of the two.
RateLimited(limits, m, t) == m \in DOMAIN limits /\ t < limits[m]

\* The working_mirrors that get_working_mirror finds when it is called in
\* this state: fetch_tweets_html refills an empty list before the call.
CalledWith ==
    IF pc # "pool" /\ working_mirrors = {} THEN mirrors ELSE working_mirrors

\* The outcomes of get_working_mirror called in this state.
Selections == get_working_mirror(mirrors, CalledWith, rate_limited_until, time)

\* get_working_mirror, called in this state, takes its branch that resets
\* the lists: no working mirror is available and the soonest expiry
\* recorded is 60 seconds away or more.
Resets ==
    /\ available_mirrors(CalledWith, rate_limited_until, time) = {}
    /\ DOMAIN rate_limited_until # {}
    /\ LET wait == SetMin({rate_limited_until[m] : m \in DOMAIN rate_limited_until})
                      - time
       IN (IF wait > 0 THEN wait ELSE 0) + 1 > ResetThreshold

\* The statement as first made: get_working_mirror never returns a mirror
\* that is rate limited when it returns.
C12_NeverRateLimited ==
    \A out \in Selections :
        out.ret \in mirrors => ~RateLimited(rate_limited_until, out.ret, out.time)

\* C12: get_working_mirror returns a mirror that is rate limited only when it
\* resets the lists (no working mirror is available and the wait for the
\* soonest expiry, plus one second, is more than 60 seconds): then it clears
\* the rate limits, restores the full list and returns any mirror at once.
\* In every other case the mirror it returns is a working mirror that is not
\* rate limited when the call returns, and the lists are as they were.
C12_RateLimitedOnlyOnReset ==
    \A out \in Selections :
        out.ret \in mirrors =>
           IF Resets
           THEN /\ out.rate_limited_until = NoLimits
                /\ out.working_mirrors = mirrors
                /\ out.time = time
           ELSE /\ out.ret \in CalledWith
                /\ ~RateLimited(rate_limited_until, out.ret, out.time)
                /\ out.rate_limited_until = rate_limited_until
                /\ out.working_mirrors = CalledWith

\* A script has marked both mirrors, one of them for long, the limit of the
\* other has passed, and get_working_mirror has returned that one.
C12_Witness ==
    /\ pc = "pool"
    /\ selected \in mirrors
    /\ DOMAIN rate_limited_until = {"A", "B"}
    /\ ~RateLimited(rate_limited_until, selected, time)
    /\ \E m \in mirrors : RateLimited(rate_limited_until, m, time)

\* C13: with the mirrors A and B, both working, and A alone marked rate
\* limited for 5 seconds, every call of get_working_mirror made before the
\* 5 seconds have passed returns B, at once.
C13_ReturnsOther ==
    (/\ pc = "pool"
     /\ mirrors = {"A", "B"}
     /\ working_mirrors = mirrors
     /\ DOMAIN rate_limited_until = {"A"}
     /\ time < rate_limited_until["A"]
     /\ rate_limited_until["A"] <= time + 5)
    => \A out \in Selections : out.ret = "B" /\ out.time = time

\* A was marked for 5 seconds at time 0, four seconds have passed, and
\* get_working_mirror has returned B.
C13_Witness ==
    /\ pc = "pool"
    /\ mirrors = {"A", "B"}
    /\ working_mirrors = mirrors
    /\ DOMAIN rate_limited_until = {"A"}
    /\ rate_limited_until["A"] = 5
    /\ time = 4
    /\ selected = "B"

\* C14: fetch_tweets_html makes at most retry_count requests, its loop ends
\* after at most retry_count passes, a pass that finds tweets ends it with
\* these tweets, a failure is returned only when the passes are used up (or
\* for an empty username), and no exception leaves it.
C14_FetchReturnsNormally ==
    /\ requests <= RetryCount
    /\ attempt <= RetryCount
    /\ pc = "fetching" => attempt < RetryCount /\ fetch_result = "none"
    /\ fetch_result = "failed" /\ fetches > 0 /\ requests > 0 =>
          attempt >= RetryCount - 1
    /\ fetch_result # "raised"

\* get_working_mirror, called in this state, finds no working mirror
\* available and has expiries to take the minimum of.
NoneAvailable ==
    /\ available_mirrors(CalledWith, rate_limited_until, time) = {}
    /\ DOMAIN rate_limited_until # {}

\* The seconds from now until the soonest expiry recorded, none when it has
\* passed.
WaitNeeded ==
    LET next_available_time ==
            SetMin({rate_limited_until[m] : m \in DOMAIN rate_limited_until})
    IN IF next_available_time > time THEN next_available_time - time ELSE 0

\* C27: when get_working_mirror finds no mirror available, then: if the
\* wait needed until the soonest expiry is more than 60 seconds, it clears
\* the rate limits, restores the full list and returns a mirror at once; if
\* the wait needed is 60 seconds or less, it waits until that expiry at
\* least, and returns a mirror of the list, with the list and the rate
\* limits as they were.
C27_WaitOrReset ==
    NoneAvailable =>
       \A out \in Selections :
          IF WaitNeeded > 60
          THEN /\ out.ret \in mirrors
               /\ out.rate_limited_until = NoLimits
               /\ out.working_mirrors = mirrors
               /\ out.time = time
          ELSE /\ out.ret \in CalledWith
               /\ out.rate_limited_until = rate_limited_until
               /\ out.working_mirrors = CalledWith
               /\ out.time >= time + WaitNeeded

\* The passes of fetch_tweets_html that can follow this state when
\* requests.get gives this response, those that made the request.
PassesWith(response) ==
    {out \in fetch_attempt(mirrors, RetryCount, working_mirrors,
                           rate_limited_until, time, attempt, requests, response) :
        out.requests > requests}

\* The list get_working_mirror is next called with after a pass.
RotationAfter(out) ==
    IF out.working_mirrors = {} THEN mirrors ELSE out.working_mirrors

\* C28: a mirror that answered 429 and was marked rate limited is eligible
\* again as soon as its retry-after has passed: get_working_mirror, called
\* with the lists as the pass left them, once the expiry is behind, can
\* return it.
C28_EligibleAfterExpiry ==
    pc = "fetching" =>
       \A response \in Responses :
          (response.kind = "response" /\ response.status_code = 429
              /\ RetryAfterOf(response).raised = "none") =>
             \A out \in PassesWith(response) :
                LET expiry == out.rate_limited_until[out.selected]
                IN out.selected \in
                      available_mirrors(RotationAfter(out),
                                        out.rate_limited_until, expiry + 1)

\* C29: a mirror that this fetch_tweets_html call has removed after a failed
\* request is not requested again by the same call, and it is still in the
\* list of all mirrors.
C29_RemovedNotRequestedAgain ==
    /\ removed \subseteq mirrors
    /\ pc = "fetching" =>
          \A response \in Responses :
             \A out \in PassesWith(response) : out.selected \notin removed

\* C30: a pass of fetch_tweets_html that another pass follows ends with a
\* backoff sleep of 2^attempt seconds, whatever requests.get gave (a 429,
\* another status, an exception, a page without tweets), and a pass that
\* ends the call sleeps no backoff.
C30_BackoffBetweenAttempts ==
    pc = "fetching" =>
       \A response \in Responses :
          \A out \in PassesWith(response) :
             out.backoff = IF out.result = "none" THEN 2 ^ attempt ELSE 0

\* C31: every call of get_working_mirror that fetch_tweets_html makes
\* returns a mirror: it raises neither ValueError (min of an empty dict)
\* nor RecursionError (calls of itself, a second apart, without end).
C31_SelectionReturns ==
    pc = "fetching" => \A out \in Selections : out.ret \in mirrors

\* =================================================================
\* The processing job (x2telegram/core/processor.py) and the commands that
\* manage the followers.  rss_service.get_tweets, analyzer.analyze_with_ai
\* and telegram.send_message are represented by what they return; the fields
\* of the scraping service, which the job does not read, stay as they are.
\* =================================================================
\* runs of the job in one behaviour
MaxRuns == 1
\* add_follower calls that insert a row, in one behaviour
MaxAdds == 1

\* MAX_TWEETS_PER_USER = int(os.environ.get("MAX_TWEETS_PER_USER", "10"))
MaxTweetsPerUser == 10

\* What get_tweets returns, or that it raises (fetch_tweets_html lets the
\* RecursionError of get_working_mirror through).  The tweets t1 and t2 are
\* newer than every row of FullCache and t0 is older.
GetTweetsOutcomes ==
    {[raised |-> "RecursionError", tweets |-> <<>>],
     [raised |-> "none", tweets |-> <<>>],
     [raised |-> "none", tweets |-> <<Tweet("t0", Text(0))>>],
     [raised |-> "none", tweets |-> <<Tweet("t1", Text(11))>>],
     [raised |-> "none", tweets |-> <<Tweet("t1", Text(11)), Tweet("t2", Text(12))>>]}

\* tweets[:MAX_TWEETS_PER_USER]
Capped(tweets) ==
    SubSeq(tweets, 1, IF Len(tweets) < MaxTweetsPerUser THEN Len(tweets)
                      ELSE MaxTweetsPerUser)

\* format_tweet_message(username, tweet) called with the positional arguments
\* args: the function takes two, and Python raises TypeError for any other
\* number.
format_tweet_message(args) ==
    IF Len(args) = 2
    THEN [raised |-> "none",
          message |-> <<"New tweet from @", args[1], args[2].tweet_content,
                        args[2].tweet_url>>]
    ELSE [raised |-> "TypeError", message |-> <<>>]

\* What a loop over tweets has done so far: the tables, the
\* (tweet id, follower id) pairs given to store_tweet, the
\* ids for which update_analysis_result returned True, the ids given to
\* send_message, those for which it returned ok and those for which
\* mark_as_sent returned True.
Progress(cache, seq) ==
    [cache |-> cache, seq |-> seq, handled |-> {},
     analyzed |-> {}, sends |-> {}, oks |-> {}, marked |-> {}]

\* The loop of process_follower_tweets over tweets, from the state st: the
\* possible states when the loop is left, at its end or by an exception,
\* which the except clause around the loop catches.  ok is what
\* send_message returns and now what the clock reads.
RECURSIVE FollowerLoop(_, _, _, _, _, _)
FollowerLoop(st, follower, tweets, analysis_text, ok, now) ==
    IF tweets = <<>>
    THEN {st}
    ELSE LET tweet == Head(tweets)
             AfterStore(out) ==
                 LET updated == update_analysis_result(out.cache, tweet.tweet_id,
                                                       analysis_text)
                     message == format_tweet_message(
                                    <<follower.username, tweet, analysis_text>>)
                     st1 == [st EXCEPT
                               !.cache = updated.cache,
                               !.seq = out.seq,
                               !.handled = @ \cup {<<tweet.tweet_id, follower.id>>},
                               !.analyzed = IF updated.ret
                                            THEN @ \cup {tweet.tweet_id} ELSE @]
                     sent == mark_as_sent(st1.cache, tweet.tweet_id, now)
                     st2 == [st1 EXCEPT
                               !.sends = @ \cup {tweet.tweet_id},
                               !.oks = IF ok THEN @ \cup {tweet.tweet_id} ELSE @,
                               !.cache = IF ok THEN sent.cache ELSE @,
                               !.marked = IF ok /\ sent.ret
                                          THEN @ \cup {tweet.tweet_id} ELSE @]
                 IN IF message.raised # "none"
                    THEN {st1}
                    ELSE FollowerLoop(st2, follower, Tail(tweets),
                                      analysis_text, ok, now)
         IN IF tweet_exists(st.cache, tweet.tweet_id)
            THEN FollowerLoop(st, follower, Tail(tweets), analysis_text, ok, now)
            ELSE UNION {AfterStore(out) :
                          out \in store_tweet(st.cache, st.seq, tweet, follower.id)}

\* process_follower_tweets(follower), for an outcome of get_tweets
process_follower_tweets(cache, seq, follower, fetched, analysis_text, ok, now) ==
    IF fetched.raised # "none"
    THEN {Progress(cache, seq)}
    ELSE FollowerLoop(Progress(cache, seq), follower, Capped(fetched.tweets),
                      analysis_text, ok, now)

\* The loop of process_pending_tweets over the list unsent_tweets, from the
\* state st, with the rows of followers; as FollowerLoop.
RECURSIVE PendingLoop(_, _, _, _, _)
PendingLoop(st, follower_rows, unsent_tweets, ok, now) ==
    IF unsent_tweets = <<>>
    THEN {st}
    ELSE LET tweet == Head(unsent_tweets)[1]
             follower_id == Head(unsent_tweets)[2]
             analysis_result == Head(unsent_tweets)[3]
             all == get_all_followers(follower_rows, FALSE)
             named == {all[i].username : i \in {j \in 1..Len(all) :
                                                  all[j].id = follower_id}}
             username == IF named = {} THEN "unknown" ELSE CHOOSE u \in named : TRUE
             message == format_tweet_message(<<username, tweet, analysis_result>>)
             sent == mark_as_sent(st.cache, tweet.tweet_id, now)
             st2 == [st EXCEPT
                       !.sends = @ \cup {tweet.tweet_id},
                       !.oks = IF ok THEN @ \cup {tweet.tweet_id} ELSE @,
                       !.cache = IF ok THEN sent.cache ELSE @,
                       !.marked = IF ok /\ sent.ret
                                  THEN @ \cup {tweet.tweet_id} ELSE @]
         IN IF message.raised # "none"
            THEN {st}
            ELSE PendingLoop(st2, follower_rows, Tail(unsent_tweets), ok, now)

\* process_pending_tweets(limit): the possible outcomes, each with the list
\* that get_unsent_analyzed_tweets returned
process_pending_tweets(cache, seq, follower_rows, limit, ok, now) ==
    UNION {{[after |-> st, unsent_tweets |-> unsent_tweets] :
              st \in PendingLoop(Progress(cache, seq), follower_rows,
                                 unsent_tweets, ok, now)} :
             unsent_tweets \in get_unsent_analyzed_tweets(cache, limit)}

\* ------------------------------------------------------ commands and run
\* add_follower(username), from the command line
AddFollower(username) ==
    /\ followers_seq < 2 + MaxAdds
    /\ LET out == add_follower(followers, followers_seq, username)
       IN /\ followers' = out.followers
          /\ followers_seq' = out.seq
    /\ UNCHANGED <<tweets_cache, tweets_seq, stored, analysis_updated, marked_sent>>
    /\ UNCHANGED callerVars

\* Database.close() without its call of self.conn.close().
close_keeps_open(conn_open) == conn_open

\* Database.close(), for a connection that is open or not: whether it is
\* open afterwards
close(conn_open) == FALSE

\* run(), up to its loop.  connected says whether self.db.connect() returned
\* a connection: if not, run() returns False at once; otherwise
\* followers = get_all_followers(enabled_only=True).
RunStart(connected) ==
    /\ pc = "idle"
    /\ runs < MaxRuns
    /\ runs' = runs + 1
    /\ run_followers' = IF connected THEN get_all_followers(followers, TRUE) ELSE <<>>
    /\ run_enabled' = IF connected THEN {f.id : f \in {g \in followers : g.enabled}}
                      ELSE {}
    /\ offered' = {}
    /\ handled' = {}
    /\ pending_seen' = {}
    /\ send_attempts' = {}
    /\ sent_ok' = {}
    /\ db_open' = connected
    /\ run_log' = IF connected THEN <<"connect">> ELSE <<"connect_failed">>
    /\ pc' = IF connected THEN "followers" ELSE "idle"
    /\ UNCHANGED <<storeVars, serviceVars, parseVars, procVars, analyzerVars>>

\* One turn of the loop of run(): process_follower_tweets(follower) for the
\* next follower of the list, then safe_sleep(1).  offered records the
\* tweets of the capped list that were not stored when the turn began.
\* interrupt says whether KeyboardInterrupt is raised during the sleep:
\* safe_sleep raises it again, `except Exception` does not catch it and the
\* finally clause closes the database before it leaves run().
ProcessFollower(fetched, analysis_text, ok, now, interrupt) ==
    /\ pc = "followers"
    /\ run_followers # <<>>
    /\ LET follower == Head(run_followers)
           capped == Capped(fetched.tweets)
       IN /\ \E out \in process_follower_tweets(tweets_cache, tweets_seq, follower,
                                                fetched, analysis_text, ok, now) :
                /\ tweets_cache' = out.cache
                /\ tweets_seq' = out.seq
                /\ stored' = stored
                /\ handled' = handled \cup out.handled
                /\ analysis_updated' = analysis_updated \cup out.analyzed
                /\ send_attempts' = send_attempts \cup out.sends
                /\ sent_ok' = sent_ok \cup out.oks
                /\ marked_sent' = marked_sent \cup out.marked
          /\ offered' = offered \cup
                {<<capped[i].tweet_id, follower.id>> : i \in
                    {j \in 1..Len(capped) :
                        /\ fetched.raised = "none"
                        /\ ~tweet_exists(tweets_cache, capped[j].tweet_id)}}
    /\ run_followers' = IF interrupt THEN <<>> ELSE Tail(run_followers)
    /\ run_log' = IF interrupt THEN run_log \o <<"follower", "close">>
                  ELSE Append(run_log, "follower")
    /\ db_open' = IF interrupt THEN close(db_open) ELSE db_open
    /\ pc' = IF interrupt THEN "idle" ELSE pc
    /\ UNCHANGED <<followers, followers_seq, serviceVars, runs, run_enabled,
                   pending_seen, parseVars, procVars, analyzerVars>>

\* run() after its loop: process_pending_tweets() with the default limit
ProcessPending(ok, now) ==
    /\ pc = "followers"
    /\ run_followers = <<>>
    /\ \E out \in process_pending_tweets(tweets_cache, tweets_seq, followers,
                                         DefaultUnsentLimit, ok, now) :
          /\ tweets_cache' = out.after.cache
          /\ pending_seen' = pending_seen \cup
                {out.unsent_tweets[i][1].tweet_id : i \in 1..Len(out.unsent_tweets)}
          /\ send_attempts' = send_attempts \cup out.after.sends
          /\ sent_ok' = sent_ok \cup out.after.oks
          /\ marked_sent' = marked_sent \cup out.after.marked
    /\ run_log' = Append(run_log, "pending")
    /\ pc' = "maintenance"
    /\ UNCHANGED <<followers, followers_seq, tweets_seq, stored, analysis_updated,
                   serviceVars, runs, run_followers, run_enabled, offered, handled,
                   db_open, parseVars, procVars, analyzerVars>>

\* The end of run(): self.db.run_maintenance(), return True, and
\* self.db.close() in the finally clause
RunEnd ==
    /\ pc = "maintenance"
    /\ \E out \in run_maintenance(tweets_cache, followers) :
          tweets_cache' = out.cache
    /\ run_log' = run_log \o <<"maintenance", "close">>
    /\ db_open' = close(db_open)
    /\ pc' = "idle"
    /\ UNCHANGED <<followers, followers_seq, tweets_seq, stored,
                   analysis_updated, marked_sent, serviceVars, runs, run_followers,
                   run_enabled, offered, handled, pending_seen, send_attempts,
                   sent_ok, parseVars, procVars, analyzerVars>>

\* The usernames given to the add command (args.username): any string, the
\* empty one too
AddedUsernames == Usernames \cup {""}

PipelineNext ==
    \/ \E username \in AddedUsernames : AddFollower(username)
    \/ \E username \in Usernames : RemoveFollower(username)
    \/ \E username \in Usernames, enabled \in BOOLEAN :
          EnableFollower(username, enabled)
    \/ \E connected \in BOOLEAN : RunStart(connected)
    \/ \E fetched \in GetTweetsOutcomes, analysis_text \in AnalysisResults,
          ok \in BOOLEAN, now \in Nows, interrupt \in BOOLEAN :
          ProcessFollower(fetched, analysis_text, ok, now, interrupt)
    \/ \E ok \in BOOLEAN, now \in Nows : ProcessPending(ok, now)
    \/ RunEnd

PipelineSpec == Init /\ [][PipelineNext]_vars

\* =================================================================
\* Properties of the processing job and of the follower commands
\* =================================================================

\* C16: an item that was stored and analyzed but not delivered stays in the
\* store as analyzed and not sent, and the next pending re-scan attempts its
\* delivery again.  In the form a finite run can refute: once
\* process_pending_tweets has returned, send_message has been called for
\* every item that get_unsent_analyzed_tweets listed.
C16_PendingRetried ==
    pc = "maintenance" => pending_seen \subseteq send_attempts

\* C17: an exception raised while one item is processed does not abort the
\* remaining new items of the same follower: every tweet of the fetched list
\* that was not stored when process_follower_tweets began has been given to
\* store_tweet when it returns.
C17_SiblingsProcessed ==
    offered \subseteq handled

\* C19: usernames are unique in every reachable state, and add_follower for
\* a username that is present returns the failure value and leaves the
\* followers table as it was.
C19_HandlesUnique ==
    /\ \A f \in followers, g \in followers : f.username = g.username => f = g
    /\ \A username \in AddedUsernames :
          (\E f \in followers : f.username = username) =>
             LET out == add_follower(followers, followers_seq, username)
             IN /\ out.ret = NoneId
                /\ out.followers = followers
                /\ out.seq = followers_seq

\* C19's case: add_follower has inserted a row, and its username is present
\* for a second add_follower.
C19_Witness ==
    /\ followers_seq > 2
    /\ \E f \in followers : f.id = followers_seq /\ f.username \in Usernames

\* C23: every stored follower has a non-empty username: add_follower with
\* an empty username creates no row.
C23_HandlesNonEmpty ==
    \A f \in followers : f.username # ""

\* C24: the steps for a new item go in the order store, analyze, deliver,
\* mark as sent, and the pruning of its follower's rows comes after them: a
\* tweet that process_follower_tweets has stored is still stored when its
\* analysis is persisted, so update_analysis_result has returned True for
\* every tweet given to store_tweet.
C24_PruneAfterSteps ==
    {h[1] : h \in handled} \subseteq analysis_updated

\* The place of a step in a run
StepRank(step) ==
    CASE step = "connect" -> 0
      [] step = "follower" -> 1
      [] step = "pending" -> 2
      [] step = "maintenance" -> 3
      [] step = "close" -> 4

Steps(step) == {i \in 1..Len(run_log) : run_log[i] = step}

\* C26: a run goes through its phases in a fixed order: process the tweets
\* of every enabled follower, then the pending tweets, then run_maintenance,
\* then close the database; run_maintenance does not start before
\* process_pending_tweets has returned, and the database is closed on every
\* path that leaves run().
C26_PhasesInOrder ==
    \/ run_log \in {<<>>, <<"connect_failed">>} /\ ~db_open
    \/ /\ run_log[1] = "connect"
       /\ \A i \in 1..Len(run_log), j \in 1..Len(run_log) :
             i < j => /\ StepRank(run_log[i]) <= StepRank(run_log[j])
                      /\ run_log[i] = run_log[j] => run_log[i] = "follower"
       /\ Steps("pending") # {} => Cardinality(Steps("follower")) = Cardinality(run_enabled)
       /\ Steps("maintenance") # {} => Steps("pending") # {}
       /\ pc = "idle" <=> ~db_open
       /\ pc = "idle" <=> run_log[Len(run_log)] = "close"

\* C26's case: a run over two enabled followers has gone through all its
\* phases and returned.
C26_Witness ==
    /\ pc = "idle"
    /\ Cardinality(Steps("follower")) >= 2
    /\ Steps("maintenance") # {}
    /\ run_log[Len(run_log)] = "close"
    /\ ~db_open

\* A run was left by KeyboardInterrupt with a follower still to process.
C26_InterruptedWitness ==
    /\ pc = "idle"
    /\ Steps("pending") = {}
    /\ Cardinality(Steps("follower")) < Cardinality(run_enabled)
    /\ ~db_open

\* The usernames of a list of followers
Listed(list) == {list[i].username : i \in 1..Len(list)}

\* C20: after enable_follower(username, False) the follower is absent from
\* get_all_followers(enabled_only=True) and after
\* enable_follower(username, True) it is present again; a run processes only
\* the followers that were enabled when it started and stores no tweet under
\* the id of a follower that was disabled then.
C20_OnlyEnabledProcessed ==
    /\ \A f \in followers :
          LET off == enable_follower(followers, f.username, FALSE).followers
              on == enable_follower(off, f.username, TRUE).followers
          IN /\ f.username \notin Listed(get_all_followers(off, TRUE))
             /\ f.username \in Listed(get_all_followers(on, TRUE))
    /\ \A i \in 1..Len(run_followers) : run_followers[i].id \in run_enabled
    /\ \A h \in handled \cup offered : h[2] \in run_enabled

\* C20's case: a run has ended that stored a tweet while a follower was
\* disabled from its start.
C20_Witness ==
    /\ pc = "idle"
    /\ runs > 0
    /\ handled # {}
    /\ \E f \in followers : ~f.enabled /\ f.id \notin run_enabled

\* =================================================================
\* Maintenance
\* =================================================================

\* After run_maintenance every follower of the table keeps its sent rows and
\* a set of keep_count most recent rows, rows of other follower ids are as
\* they were, and the value returned is the number of rows deleted.
MaintenancePostcondition ==
    \A out \in run_maintenance(tweets_cache, followers) :
        /\ out.cache \subseteq tweets_cache
        /\ out.ret = Cardinality(tweets_cache) - Cardinality(out.cache)
        /\ \A r \in tweets_cache \ out.cache :
              r.follower_id \in {f.id : f \in followers}
        /\ \A f \in followers :
              LET mine == RowsOf(tweets_cache, f.id)
                  after == RowsOf(out.cache, f.id)
                  sent == {r \in mine : r.is_sent_to_telegram}
              IN /\ sent \subseteq after
                 /\ after \subseteq mine
                 /\ \E also \in SUBSET sent :
                       IsMostRecent((after \ sent) \cup also, mine, DefaultKeepCount)

\* C21: run_maintenance() calls cleanup_old_tweets with the default
\* keep_count for every follower of the followers table, enabled or not, and
\* returns the sum of the counts deleted: afterwards every follower of the
\* table keeps exactly its sent rows and its keep_count most recent rows,
\* the rows of no other follower id are touched, and the value returned is
\* the number of rows deleted.  What run_maintenance may leave of a
\* follower's rows is what cleanup_old_tweets(follower_id) alone may leave.
C21_MaintenancePrunesAll ==
    /\ \A f \in followers :
          {RowsOf(out.cache, f.id) :
              out \in run_maintenance(tweets_cache, followers)} =
          {RowsOf(one.cache, f.id) :
              one \in cleanup_old_tweets(tweets_cache, f.id, DefaultKeepCount)}
    /\ MaintenancePostcondition

\* C21's case: a disabled follower has more than keep_count rows and
\* run_maintenance deletes one of them.
C21_Witness ==
    /\ \E f \in followers :
          /\ ~f.enabled
          /\ Cardinality(RowsOf(tweets_cache, f.id)) > DefaultKeepCount
    /\ \E out \in run_maintenance(tweets_cache, followers) : out.ret > 0

\* =================================================================
\* The HTML parser of class RSSService (parse_nitter_html and
\* find_potential_tweets), over pages as BeautifulSoup holds them
\* =================================================================
\* A node of a parsed page.  A tag has a name, its attributes (class is a
\* list of names, as BeautifulSoup gives it) and its children in document
\* order; a string of the page is a node named "#text".  Text is a sequence
\* of tokens: " " is white space, "@" and "Â·" are themselves and any other
\* token is a run of word characters (\w+).
NoAttrs == [a \in {} |-> <<>>]

Tag(name, attrs, kids) == [name |-> name, attrs |-> attrs, text |-> <<>>, kids |-> kids]

String(text) == [name |-> "#text", attrs |-> NoAttrs, text |-> text, kids |-> <<>>]

\* BeautifulSoup(html, 'html.parser'): the object that holds the top-level
\* nodes of the page
Soup(kids) == Tag("[document]", NoAttrs, kids)

Class(name) == [a \in {"class"} |-> <<name>>]

Href(url) == [a \in {"href"} |-> url]

\* The hrefs of the pages: permalinks of status 42, relative and absolute,
\* and the link to a profile.
StatusHrefs == {"/alice/status/42", "https://nitter.net/alice/status/42"}

ProfileHref == "/alice"

\* 'status' in href, '/status/' in href and href*="status": the hrefs that
\* contain the substring
HrefContains(href, what) ==
    /\ what \in {"status", "/status/"}
    /\ href \in StatusHrefs

\* re.search(r'status[es]?/(\d+)', href): group(1) of the match, or "" when
\* there is none
StatusId(href) == IF href \in StatusHrefs THEN "42" ELSE ""

\* href.startswith('/')
StartsWithSlash(href) == href \in {"/alice/status/42", ProfileHref}

\* f"{mirror}{tweet_url}" for a relative url, the url itself otherwise: the
\* parts of the string
AbsoluteUrl(mirror, url) ==
    IF StartsWithSlash(url) THEN <<mirror, url>> ELSE <<url>>

\* The node at a path, a sequence of child indices from the node `root`
RECURSIVE NodeAt(_, _)
NodeAt(root, path) ==
    IF path = <<>> THEN root ELSE NodeAt(root.kids[Head(path)], Tail(path))

\* The paths of the descendants of the node at `path`, in document order
RECURSIVE Descendants(_, _)
Descendants(root, path) ==
    LET n == NodeAt(root, path)
        RECURSIVE From(_)
        From(i) ==
            IF i > Len(n.kids) THEN <<>>
            ELSE <<Append(path, i)>> \o Descendants(root, Append(path, i)) \o From(i + 1)
    IN From(1)

\* container.parent
Parent(path) == SubSeq(path, 1, Len(path) - 1)

\* node.get('class'): the list of class names, empty when there is none
ClassesOf(node) ==
    IF "class" \in DOMAIN node.attrs THEN node.attrs["class"] ELSE <<>>

\* One compound of a CSS selector (tag name, class, id, attribute and the
\* substring the attribute's value must contain, "" where the selector does
\* not ask) with the combinator that ties it to the compound before it:
\* " " for descendant, ">" for child.
Compound(comb, name, class, id, attr, has) ==
    [comb |-> comb, name |-> name, class |-> class, id |-> id, attr |-> attr,
     has |-> has]

ByClass(class) == <<Compound("", "", class, "", "", "")>>

MatchesCompound(node, c) ==
    /\ node.name \notin {"#text", "[document]"}
    /\ c.name = "" \/ node.name = c.name
    /\ c.class = "" \/ \E i \in 1..Len(ClassesOf(node)) : ClassesOf(node)[i] = c.class
    /\ c.id = "" \/ ("id" \in DOMAIN node.attrs /\ node.attrs["id"] = c.id)
    /\ c.attr = "" \/ /\ c.attr \in DOMAIN node.attrs
                      /\ c.has = "" \/ HrefContains(node.attrs[c.attr], c.has)

\* The node at path matches the first k compounds of the selector.
RECURSIVE MatchesAt(_, _, _, _)
MatchesAt(root, path, selector, k) ==
    /\ MatchesCompound(NodeAt(root, path), selector[k])
    /\ \/ k = 1
       \/ /\ selector[k].comb = ">"
          /\ path # <<>>
          /\ MatchesAt(root, Parent(path), selector, k - 1)
       \/ /\ selector[k].comb = " "
          /\ \E n \in 0..(Len(path) - 1) :
                MatchesAt(root, SubSeq(path, 1, n), selector, k - 1)

\* element.select(selector): the paths of the descendants of the node at
\* `path` that match, in document order
select(root, path, selector) ==
    SelectSeq(Descendants(root, path),
              LAMBDA q : MatchesAt(root, q, selector, Len(selector)))

\* element.find_all(name)
find_all(root, path, name) ==
    SelectSeq(Descendants(root, path), LAMBDA q : NodeAt(root, q).name = name)

\* ------------------------------------------------------------------ text
IsSpace(token) == token = " "

IsWord(token) == token \notin {" ", "@", "Â·"}

\* str.strip()
RECURSIVE Strip(_)
Strip(text) ==
    IF text = <<>> THEN <<>>
    ELSE IF IsSpace(Head(text)) THEN Strip(Tail(text))
    ELSE IF IsSpace(text[Len(text)]) THEN Strip(SubSeq(text, 1, Len(text) - 1))
    ELSE text

\* element.get_text(strip=True): the strings below the node, each stripped,
\* the empty ones left out, joined with nothing between them
RECURSIVE JoinStripped(_, _)
JoinStripped(root, paths) ==
    IF paths = <<>> THEN <<>>
    ELSE LET n == NodeAt(root, Head(paths))
         IN (IF n.name = "#text" THEN Strip(n.text) ELSE <<>>)
            \o JoinStripped(root, Tail(paths))

get_text(root, path) == JoinStripped(root, <<path>> \o Descendants(root, path))

\* The first alternative of the pattern, @[\w]+, matches at the head of the
\* text: the number of tokens of the match, 0 when there is none.  Word
\* tokens that follow each other with nothing between them are one run of
\* word characters.
RECURSIVE WordRun(_)
WordRun(text) ==
    IF text # <<>> /\ IsWord(Head(text)) THEN 1 + WordRun(Tail(text)) ELSE 0

MentionAt(text) ==
    IF text # <<>> /\ Head(text) = "@" /\ WordRun(Tail(text)) > 0
    THEN 1 + WordRun(Tail(text)) ELSE 0

\* The second alternative, ^\s*[\w\s]+\s*Â·\s*[\w\s]+\s*$, matches the whole
\* text.
WholeLineMatches(text) ==
    \E k \in 2..(Len(text) - 1) :
        /\ text[k] = "Â·"
        /\ \A i \in (1..Len(text)) \ {k} : IsWord(text[i]) \/ IsSpace(text[i])

RECURSIVE RemoveMentions(_)
RemoveMentions(text) ==
    IF text = <<>> THEN <<>>
    ELSE IF MentionAt(text) > 0
    THEN RemoveMentions(SubSeq(text, MentionAt(text) + 1, Len(text)))
    ELSE <<Head(text)>> \o RemoveMentions(Tail(text))

\* re.sub(r'@[\w]+|^\s*[\w\s]+\s*Â·\s*[\w\s]+\s*$', '', content)
CleanUp(content) ==
    IF MentionAt(content) = 0 /\ WholeLineMatches(content)
    THEN <<>>
    ELSE RemoveMentions(content)

\* ------------------------------------------------- find_potential_tweets
\* The container of a link: up to 5 levels up, stopping at a div, article
\* or li that has a class.
RECURSIVE Climb(_, _, _)
Climb(root, container, levels) ==
    IF levels = 0 \/ container = <<>>
    THEN container
    ELSE LET up == Parent(container)
             node == NodeAt(root, up)
         IN IF node.name \in {"div", "article", "li"} /\ ClassesOf(node) # <<>>
            THEN up
            ELSE Climb(root, up, levels - 1)

ClimbLevels == 5

\* The loop of find_potential_tweets over status_links, with the tweets
\* found so far and processed_urls
RECURSIVE PotentialLoop(_, _, _, _, _, _, _)
PotentialLoop(root, links, processed_urls, tweets, mirror, username, now) ==
    IF links = <<>>
    THEN tweets
    ELSE LET link == Head(links)
             href == IF "href" \in DOMAIN NodeAt(root, link).attrs
                     THEN NodeAt(root, link).attrs["href"] ELSE ""
             tweet_id == StatusId(href)
             container == Climb(root, link, ClimbLevels)
             p_elements == find_all(root, container, "p")
             first == IF p_elements # <<>>
                      THEN get_text(root, Head(p_elements)) ELSE <<>>
             content == IF first # <<>> THEN first
                        ELSE CleanUp(get_text(root, container))
             found == [id |-> tweet_id,
                       url |-> AbsoluteUrl(mirror, href),
                       content |-> content,
                       published |-> now,
                       author |-> <<username>>,
                       image |-> NULL]
         IN IF href \in processed_urls
            THEN PotentialLoop(root, Tail(links), processed_urls, tweets,
                               mirror, username, now)
            ELSE PotentialLoop(root, Tail(links), processed_urls \cup {href},
                               IF /\ HrefContains(href, "/status/")
                                  /\ tweet_id # ""
                                  /\ content # <<>>
                               THEN Append(tweets, found) ELSE tweets,
                               mirror, username, now)

\* find_potential_tweets(soup, mirror, username), with now the reading of
\* the clock
find_potential_tweets(root, mirror, username, now) ==
    PotentialLoop(root,
                  select(root, <<>>, <<Compound("", "a", "", "", "href", "status")>>),
                  {}, <<>>, mirror, username, now)

\* --------------------------------------------------- extract_tweet_data
\* element.select_one(selector): a sequence with the first match, or empty
select_one(root, path, selector) ==
    LET all == select(root, path, selector)
    IN IF all = <<>> THEN <<>> ELSE <<Head(all)>>

AttrOf(node, attr) == IF attr \in DOMAIN node.attrs THEN node.attrs[attr] ELSE ""

\* The first selector of the list that finds an element below the node at
\* `path`: the element found, or empty
RECURSIVE FirstFound(_, _, _)
FirstFound(root, path, selectors) ==
    IF selectors = <<>> THEN <<>>
    ELSE IF select_one(root, path, Head(selectors)) # <<>>
    THEN select_one(root, path, Head(selectors))
    ELSE FirstFound(root, path, Tail(selectors))

\* As FirstFound, for the loops that go on to the next selector unless the
\* element found has the attribute
RECURSIVE FirstWithAttr(_, _, _, _)
FirstWithAttr(root, path, selectors, attr) ==
    IF selectors = <<>> THEN <<>>
    ELSE LET one == select_one(root, path, Head(selectors))
         IN IF one # <<>> /\ attr \in DOMAIN NodeAt(root, one[1]).attrs
            THEN one
            ELSE FirstWithAttr(root, path, Tail(selectors), attr)

permalink_selectors ==
    << <<Compound("", "a", "tweet-link", "", "", "")>>,
       <<Compound("", "a", "", "", "href", "status")>>,
       <<Compound("", "", "tweet-date", "", "", ""), Compound(" ", "a", "", "", "", "")>>,
       <<Compound("", "a", "", "", "href", "/status/")>>,
       <<Compound("", "a", "Permalink", "", "", "")>>,
       <<Compound("", "a", "timestamp", "", "", "")>> >>

content_selectors ==
    << ByClass("tweet-content"), ByClass("content"), ByClass("tweet-text"),
       ByClass("tweet-body"),
       <<Compound("", "", "tweet", "", "", ""), Compound(" ", "p", "", "", "", "")>>,
       <<Compound("", "", "tweet", "", "", ""), Compound(">", "div", "", "", "", ""),
         Compound(">", "p", "", "", "", "")>> >>

time_selectors ==
    << <<Compound("", "", "tweet-date", "", "", ""), Compound(" ", "a", "", "", "", "")>>,
       <<Compound("", "time", "", "", "", "")>>,
       ByClass("timestamp"), ByClass("time") >>

author_selectors ==
    << ByClass("fullname"), ByClass("username"), ByClass("name"), ByClass("user") >>

image_selectors ==
    << ByClass("still-image"),
       <<Compound("", "img", "media-img", "", "", "")>>,
       <<Compound("", "", "media", "", "", ""), Compound(" ", "img", "", "", "", "")>>,
       <<Compound("", "", "attachment", "", "", ""), Compound(" ", "img", "", "", "", "")>>,
       ByClass("tweet-img") >>

\* extract_tweet_data(element, mirror, username): a sequence with the
\* dictionary returned, or empty for None.  unknown_id is the id made from
\* the clock when the element has a permalink without a status id.
extract_tweet_data(root, element, mirror, username, now, unknown_id) ==
    LET node == NodeAt(root, element)
        permalink == FirstWithAttr(root, element, permalink_selectors, "href")
        tweet_url == IF permalink = <<>> THEN ""
                     ELSE NodeAt(root, permalink[1]).attrs["href"]
        tweet_id == IF AttrOf(node, "data-tweet-id") # ""
                    THEN node.attrs["data-tweet-id"]
                    ELSE StatusId(tweet_url)
        content_element == FirstFound(root, element, content_selectors)
        timestamp == FirstFound(root, element, time_selectors)
        fullname == FirstFound(root, element, author_selectors)
        image_element == FirstWithAttr(root, element, image_selectors, "src")
    IN IF \E i \in 1..Len(ClassesOf(node)) : ClassesOf(node)[i] = "timeline-header"
       THEN <<>>
       ELSE IF tweet_id = "" /\ tweet_url = ""
       THEN <<>>
       ELSE <<[id |-> IF tweet_id # "" THEN tweet_id ELSE unknown_id,
               url |-> IF tweet_url # "" THEN AbsoluteUrl(mirror, tweet_url)
                       ELSE <<mirror, "/", username, "/status/", tweet_id>>,
               content |-> IF content_element = <<>> THEN <<>>
                           ELSE get_text(root, content_element[1]),
               published |->
                   IF timestamp = <<>> THEN now
                   ELSE IF "title" \in DOMAIN NodeAt(root, timestamp[1]).attrs
                   THEN NodeAt(root, timestamp[1]).attrs["title"]
                   ELSE IF "datetime" \in DOMAIN NodeAt(root, timestamp[1]).attrs
                   THEN NodeAt(root, timestamp[1]).attrs["datetime"]
                   ELSE now,
               author |-> IF fullname = <<>> THEN <<username>>
                          ELSE get_text(root, fullname[1]),
               image |-> IF image_element = <<>> THEN NULL
                         ELSE AbsoluteUrl(mirror, NodeAt(root, image_element[1]).attrs["src"])]>>

\* ---------------------------------------------------- parse_nitter_html
selectors ==
    << ByClass("timeline-item"),
       ByClass("tweet"),
       <<Compound("", "", "timeline", "", "", ""), Compound(" ", "", "item", "", "", "")>>,
       ByClass("tweet-container"),
       <<Compound("", "article", "tweet", "", "", "")>>,
       <<Compound("", "", "timeline", "", "", ""), Compound(" ", "article", "", "", "", "")>>,
       <<Compound("", "div", "", "", "data-tweet-id", "")>>,
       <<Compound("", "", "", "timeline", "", ""), Compound(">", "div", "", "", "", "")>>,
       <<Compound("", "", "feed", "", "", ""), Compound(">", "div", "", "", "", "")>> >>

\* The tweets extracted from a list of elements
RECURSIVE ExtractAll(_, _, _, _, _, _)
ExtractAll(root, elements, mirror, username, now, unknown_id) ==
    IF elements = <<>> THEN <<>>
    ELSE extract_tweet_data(root, Head(elements), mirror, username, now, unknown_id)
         \o ExtractAll(root, Tail(elements), mirror, username, now, unknown_id)

\* The loop over selectors without its break: the tweets of every selector,
\* one list after the other.
RECURSIVE cascade_without_break(_, _, _, _, _, _)
cascade_without_break(root, rest, mirror, username, now, unknown_id) ==
    IF rest = <<>> THEN <<>>
    ELSE ExtractAll(root, select(root, <<>>, Head(rest)),
                    mirror, username, now, unknown_id)
         \o cascade_without_break(root, Tail(rest), mirror, username, now,
                                  unknown_id)

\* The loop over selectors: the tweets of the first selector that yields
\* some
RECURSIVE Cascade(_, _, _, _, _, _)
Cascade(root, rest, mirror, username, now, unknown_id) ==
    IF rest = <<>> THEN <<>>
    ELSE LET tweets == ExtractAll(root, select(root, <<>>, Head(rest)),
                                  mirror, username, now, unknown_id)
         IN IF tweets # <<>> THEN tweets
            ELSE Cascade(root, Tail(rest), mirror, username, now, unknown_id)

\* The strings that 'published' takes, in the order of Python's string
\* comparison: values of title and datetime attributes and readings of the
\* clock.
TimeStrings ==
    <<"", "2025-12-31T23:00:00", "2026-01-01T00:00:00",
      "Feb 1, 2026 - 10:00 AM UTC", "Jan 1, 2026 - 10:00 AM UTC">>

\* a < b for two of these strings
PublishedLess(a, b) ==
    \E i \in 1..Len(TimeStrings), j \in 1..Len(TimeStrings) :
        i < j /\ TimeStrings[i] = a /\ TimeStrings[j] = b

\* sorted(tweets, key=lambda x: x['published'], reverse=True): a stable
\* sort, in which tweets of equal key keep their order
RECURSIVE SortedNewestFirst(_)
SortedNewestFirst(tweets) ==
    IF tweets = <<>> THEN <<>>
    ELSE LET rest == SortedNewestFirst(Tail(tweets))
             before == {i \in 1..Len(rest) :
                          \A j \in 1..i : PublishedLess(Head(tweets).published,
                                                        rest[j].published)}
             n == Cardinality(before)
         IN SubSeq(rest, 1, n) \o <<Head(tweets)>> \o SubSeq(rest, n + 1, Len(rest))

\* parse_nitter_html(html, mirror, username) for the parsed page root
parse_nitter_html(root, mirror, username, now, unknown_id) ==
    LET tweets == Cascade(root, selectors, mirror, username, now, unknown_id)
    IN SortedNewestFirst(IF tweets # <<>> THEN tweets
                         ELSE find_potential_tweets(root, mirror, username, now))

\* ------------------------------------------------------------ the pages
\* Pages that no selector of the cascade matches, with one anchor to
\* status 42 and the text "hello" as its sibling.  The pages differ in the
\* text of the anchor, in what holds the word (a string, a span or a p
\* beside the anchor), in its place (before or after the anchor), in the
\* element around the two (the body itself, a div, a div or li with a class)
\* and in what else the page shows: nothing, a paragraph inside or outside
\* that element, or the link to the profile before the anchor.
AnchorTexts == {<<>>, <<"1h">>, <<"@", "alice">>, <<"bob", " ", "Â·", " ">>}
SiblingKinds == {"string", "span", "p"}
SiblingPlaces == {"before", "after"}
Wrappers == {"body", "div", "div.post", "li.entry"}
Extras == {"none", "p_inside", "p_outside", "profile"}

ScenarioPage(anchor_text, kind, place, wrapper, extra, href) ==
    LET anchor == Tag("a", Href(href),
                      IF anchor_text = <<>> THEN <<>> ELSE <<String(anchor_text)>>)
        sibling == IF kind = "string" THEN String(<<" ", "hello", " ">>)
                   ELSE Tag(kind, NoAttrs, <<String(<<"hello">>)>>)
        pair == IF place = "before" THEN <<sibling, anchor>> ELSE <<anchor, sibling>>
        inside == (IF extra = "p_inside"
                   THEN <<Tag("p", NoAttrs, <<String(<<"Pinned">>)>>)>>
                   ELSE IF extra = "profile"
                   THEN <<Tag("a", Href(ProfileHref), <<String(<<"@", "alice">>)>>)>>
                   ELSE <<>>) \o pair
        outside == IF extra = "p_outside"
                   THEN <<Tag("p", NoAttrs, <<String(<<"About">>)>>)>> ELSE <<>>
        body == IF wrapper = "body" THEN outside \o inside
                ELSE IF wrapper = "div"
                THEN outside \o <<Tag("div", NoAttrs, inside)>>
                ELSE IF wrapper = "div.post"
                THEN outside \o <<Tag("div", Class("post"), inside)>>
                ELSE outside \o <<Tag("ul", NoAttrs, <<Tag("li", Class("entry"), inside)>>)>>
    IN Soup(<<Tag("html", NoAttrs, <<Tag("body", NoAttrs, body)>>)>>)

ScenarioPages ==
    {ScenarioPage(anchor_text, kind, place, wrapper, extra, href) :
        anchor_text \in AnchorTexts, kind \in SiblingKinds, place \in SiblingPlaces,
        wrapper \in Wrappers, extra \in Extras, href \in StatusHrefs}

\* Pages made of the blocks that the selectors of the cascade look for, at
\* most two blocks to a page.  Every block shows its own word.
Attrs2(a, va, b, vb) == [x \in {a, b} |-> IF x = a THEN va ELSE vb]

StatusLink(text) == Tag("a", Href("/alice/status/42"), <<String(text)>>)

\* A div that no selector of the cascade matches
Plain ==
    Tag("div", NoAttrs,
         <<StatusLink(<<"4h">>), Tag("p", NoAttrs, <<String(<<"six">>)>>)>>)

\* The title attributes of the links of .tweet-date: the first of January,
\* the first of February, and an empty title.
Titles == {"Jan 1, 2026 - 10:00 AM UTC", "Feb 1, 2026 - 10:00 AM UTC", ""}

\* .timeline-item with the date of the tweet in the title of its permalink
Dated(title) ==
    Tag("div", Class("timeline-item"),
        <<Tag("span", Class("tweet-date"),
              <<Tag("a", Attrs2("href", "/alice/status/42", "title", title), <<>>)>>),
          Tag("div", Class("tweet-content"), <<String(<<"dated">>)>>)>>)

Blocks ==
    {\* .timeline-item with a permalink and .tweet-content
     Tag("div", Class("timeline-item"),
         <<Tag("a", Attrs2("class", <<"tweet-link">>, "href", "/alice/status/42"),
               <<>>),
           Tag("div", Class("tweet-content"), <<String(<<"one">>)>>)>>),
     \* .timeline-item that shows no tweet
     Tag("div", Class("timeline-item"),
         <<Tag("span", NoAttrs, <<String(<<"promoted">>)>>)>>),
     \* the header of the timeline
     Tag("div", [x \in {"class"} |-> <<"timeline-item", "timeline-header">>],
         <<StatusLink(<<"pinned">>)>>),
     \* .tweet
     Tag("div", Class("tweet"),
         <<StatusLink(<<"1h">>), Tag("p", NoAttrs, <<String(<<"two">>)>>)>>),
     \* .tweet within .timeline-item
     Tag("div", Class("timeline-item"),
         <<Tag("div", Class("tweet"),
               <<StatusLink(<<"2h">>), Tag("p", NoAttrs, <<String(<<"three">>)>>)>>)>>),
     \* div[data-tweet-id]
     Tag("div", [x \in {"data-tweet-id"} |-> "42"], <<String(<<"four">>)>>),
     \* #timeline > div
     Tag("div", [x \in {"id"} |-> "timeline"],
         <<Tag("div", NoAttrs, <<StatusLink(<<"3h">>), String(<<"five">>)>>)>>),
     \* .timeline-item whose link holds no status id
     Tag("div", Class("timeline-item"),
         <<Tag("a", Attrs2("class", <<"tweet-link">>, "href", ProfileHref), <<>>),
           Tag("div", Class("tweet-content"), <<String(<<"seven">>)>>)>>),
     \* a div that no selector matches
     Plain} \cup {Dated(title) : title \in Titles}

MaxBlocks == 2

CascadePages ==
    {Soup(<<Tag("html", NoAttrs, <<Tag("body", NoAttrs, blocks)>>)>>) :
        blocks \in UNION {[1..n -> Blocks] : n \in 0..MaxBlocks}}

\* The mirror the page came from and the id made from the clock
ParseMirror == "https://nitter.net"
UnknownId == "unknown_1767225600"
\* The id made from the clock a second later
LaterUnknownId == "unknown_1767225601"

\* An RSSService has been created and a page fetched; the database is not
\* in use.
ParseInit ==
    /\ followers = {}
    /\ followers_seq = 0
    /\ tweets_cache = {}
    /\ tweets_seq = 0
    /\ stored = 0
    /\ analysis_updated = {}
    /\ marked_sent = {}
    /\ pc = "page"
    /\ ServiceInit
    /\ RunInit
    /\ ProcsInit
    /\ AnalyzerInit
    /\ page \in ScenarioPages \cup CascadePages
    /\ parsed = <<>>

\* parse_nitter_html(html, mirror, username)
ParseNitterHtml(now) ==
    /\ pc = "page"
    /\ parsed' = parse_nitter_html(page, ParseMirror, "alice", now, UnknownId)
    /\ pc' = "parsed"
    /\ UNCHANGED <<storeVars, serviceVars, runVars, page, procVars, analyzerVars>>

ParseNext == \E now \in Nows : ParseNitterHtml(now)

ParseSpec == ParseInit /\ [][ParseNext]_vars

\* No selector of the cascade matches an element of the page.
NoSelectorMatches(root) ==
    \A i \in 1..Len(selectors) : select(root, <<>>, selectors[i]) = <<>>

\* The anchors of the page whose href contains /status/42
StatusAnchors(root) ==
    select(root, <<>>, <<Compound("", "a", "", "", "href", "/status/")>>)

\* C22 (Scenario C): for a page that no selector matches and that holds one
\* anchor to status 42 with the sibling text "hello", parse_nitter_html
\* returns exactly one tweet, its id is "42" and its content contains
\* "hello".
C22_ScenarioC ==
    (pc = "parsed" /\ NoSelectorMatches(page) /\ Len(StatusAnchors(page)) = 1) =>
        /\ Len(parsed) = 1
        /\ parsed[1].id = "42"
        /\ \E i \in 1..Len(parsed[1].content) : parsed[1].content[i] = "hello"

\* The tweets that selector number k of the cascade yields for the page
Yield(root, k, now) ==
    ExtractAll(root, select(root, <<>>, selectors[k]), ParseMirror, "alice", now,
               UnknownId)

\* The two lists hold the same tweets, each as often, in whatever order.
SameTweets(a, b) ==
    /\ Len(a) = Len(b)
    /\ \A i \in 1..Len(a) :
          Cardinality({j \in 1..Len(a) : a[j] = a[i]}) =
          Cardinality({j \in 1..Len(b) : b[j] = a[i]})

\* C34: parse_nitter_html returns the tweets of the first selector, in the
\* order of the list, that yields a tweet, and of no other selector; it
\* returns what find_potential_tweets finds if and only if no selector yields
\* a tweet, and then possibly nothing.
C34_FirstYieldingStrategy ==
    pc = "parsed" =>
       \A now \in Nows :
          LET yielding == {k \in 1..Len(selectors) : Yield(page, k, now) # <<>>}
          IN IF yielding # {}
             THEN SameTweets(parsed, Yield(page, SetMin(yielding), now))
             ELSE SameTweets(parsed,
                             find_potential_tweets(page, ParseMirror, "alice", now))

\* A page has been parsed for which two selectors of the cascade yield
\* different tweets: the tweets of the first of the two were returned.
C34_Witness ==
    /\ pc = "parsed"
    /\ parsed # <<>>
    /\ \E now \in Nows :
          \E k \in 1..Len(selectors), m \in 1..Len(selectors) :
             /\ Yield(page, k, now) # <<>>
             /\ Yield(page, m, now) # <<>>
             /\ ~SameTweets(Yield(page, k, now), Yield(page, m, now))

\* The ids of a list of tweets
IdsOf(tweets) == {tweets[i].id : i \in 1..Len(tweets)}

\* C35: the id of every tweet returned comes from the element (its
\* data-tweet-id or the status id of its permalink): the same page parsed a
\* second later gives the same ids.
C35_StableId ==
    pc = "parsed" =>
       \A now \in Nows :
          IdsOf(parse_nitter_html(page, ParseMirror, "alice", now, LaterUnknownId))
             = IdsOf(parsed)

\* The instant a value of 'published' denotes, as a rank in time, and 0 for
\* a string that is no date.
Instant(published) ==
    IF published = "2025-12-31T23:00:00" THEN 1
    ELSE IF published = "2026-01-01T00:00:00" THEN 2
    ELSE IF published = "Jan 1, 2026 - 10:00 AM UTC" THEN 3
    ELSE IF published = "Feb 1, 2026 - 10:00 AM UTC" THEN 4
    ELSE 0

\* The tweets of the page in the order in which parse_nitter_html collects
\* them, before it sorts.
Collected(root, now) ==
    LET tweets == Cascade(root, selectors, ParseMirror, "alice", now, UnknownId)
    IN IF tweets # <<>> THEN tweets
       ELSE find_potential_tweets(root, ParseMirror, "alice", now)

\* C36: when every 'published' of the tweets returned is a date, the tweets
\* are in descending order of these dates, the newest first; when one is no
\* date, the tweets are in the order of the page.
C36_NewestFirst ==
    pc = "parsed" =>
       IF \A i \in 1..Len(parsed) : Instant(parsed[i].published) # 0
       THEN \A i, j \in 1..Len(parsed) :
               i < j => Instant(parsed[i].published) >= Instant(parsed[j].published)
       ELSE \A now \in Nows : parsed = Collected(page, now)

\* =================================================================
\* Two processes on one database file.  Each has its own connection
\* (sqlite3.connect with the default isolation_level): a SELECT runs outside
\* any transaction, an INSERT, UPDATE or DELETE opens one and the commit that
\* follows it in every method ends it.  A statement is one step; between two
\* statements of a method the other process may execute statements of its
\* own.  store_tweet, cleanup_old_tweets, update_analysis_result and
\* mark_as_sent are followed here statement by statement, as are the calls
\* of process_follower_tweets for one fetched tweet.
\* =================================================================
\* The follower whose tweets the processes handle and the tweet both fetch.
RacedFollower == [id |-> 1, username |-> "alice", enabled |-> TRUE]
RacedTweets == {Tweet("t1", Text(11))}

ConcurrentInit ==
    /\ followers = {[id |-> 1, username |-> "alice", enabled |-> TRUE],
                    [id |-> 2, username |-> "bob", enabled |-> TRUE]}
    /\ followers_seq = 2
    /\ \/ tweets_cache = {} /\ tweets_seq = 0
       \/ tweets_cache = FullCache /\ tweets_seq = DefaultKeepCount
    /\ stored = 0
    /\ analysis_updated = {}
    /\ marked_sent = {}
    /\ pc = "processes"
    /\ ServiceInit
    /\ RunInit
    /\ ProcsInit
    /\ AnalyzerInit
    /\ ParserInit

\* keep_ids built from the most recent rows alone.
keep_ids_recent_only(sent_tweet_ids, recent_tweet_ids) == recent_tweet_ids

\* keep_ids = list(set(sent_tweet_ids + recent_tweet_ids))
keep_ids(sent_tweet_ids, recent_tweet_ids) == sent_tweet_ids \cup recent_tweet_ids

\* DELETE FROM tweets_cache WHERE follower_id = ? AND id NOT IN (keep_ids):
\* the rows it deletes from the table as it is when the statement runs
deleted_rows(cache, follower_id, keep) ==
    {r \in RowsOf(cache, follower_id) : r.id \notin keep}

\* The method of process p returns: process_follower_tweets goes on after
\* store_tweet, a call of cleanup_old_tweets by itself is over.
Returned(p) ==
    IF procs[p].call = "process_follower_tweets"
    THEN [procs EXCEPT ![p].pc = "update", ![p].sent_tweet_ids = {},
                       ![p].recent_tweet_ids = {}]
    ELSE [procs EXCEPT ![p] = Idle]

\* process_follower_tweets, for one tweet of the list fetched:
\* self.db.tweet_exists(tweet.tweet_id).  A tweet found is skipped.
TweetExists(p, tweet) ==
    /\ procs[p].pc = "idle"
    /\ stored < MaxNew
    /\ ~tweet_exists(tweets_cache, tweet.tweet_id)
    /\ procs' = [procs EXCEPT ![p] =
                    [Idle EXCEPT !.pc = "insert",
                                 !.call = "process_follower_tweets",
                                 !.tweet = tweet,
                                 !.username = RacedFollower.username,
                                 !.follower_id = RacedFollower.id,
                                 !.keep_count = DefaultKeepCount]]
    /\ UNCHANGED <<storeVars, pc, serviceVars, runVars, parseVars, analyzerVars>>

\* store_tweet: the INSERT and its commit
Insert(p) ==
    /\ procs[p].pc = "insert"
    /\ tweets_cache' = tweets_cache \cup
          {NewRow(tweets_seq + 1, procs[p].tweet, procs[p].follower_id)}
    /\ tweets_seq' = tweets_seq + 1
    /\ stored' = stored + 1
    /\ procs' = [procs EXCEPT ![p].pc = "count"]
    /\ UNCHANGED <<followers, followers_seq, analysis_updated, marked_sent,
                   pc, serviceVars, runVars, parseVars, analyzerVars>>

\* cleanup_old_tweets(follower_id), called by itself as run_maintenance
\* calls it
CleanupStart(p, follower_id) ==
    /\ procs[p].pc = "idle"
    /\ procs' = [procs EXCEPT ![p] =
                    [Idle EXCEPT !.pc = "count", !.call = "cleanup_old_tweets",
                                 !.follower_id = follower_id,
                                 !.keep_count = DefaultKeepCount]]
    /\ UNCHANGED <<storeVars, pc, serviceVars, runVars, parseVars, analyzerVars>>

\* cleanup_old_tweets: SELECT COUNT(*) and the test of total_tweets
Count(p) ==
    /\ procs[p].pc = "count"
    /\ LET total_tweets == Cardinality(RowsOf(tweets_cache, procs[p].follower_id))
       IN procs' = IF total_tweets > procs[p].keep_count
                   THEN [procs EXCEPT ![p].pc = "sent_ids"]
                   ELSE Returned(p)
    /\ UNCHANGED <<storeVars, pc, serviceVars, runVars, parseVars, analyzerVars>>

\* cleanup_old_tweets: the SELECT of the ids of the sent rows
SelectSent(p) ==
    /\ procs[p].pc = "sent_ids"
    /\ procs' = [procs EXCEPT
                    ![p].pc = "recent_ids",
                    ![p].sent_tweet_ids =
                        SentTweetIds(tweets_cache, procs[p].follower_id)]
    /\ UNCHANGED <<storeVars, pc, serviceVars, runVars, parseVars, analyzerVars>>

\* cleanup_old_tweets: the SELECT of the ids of the most recent rows
SelectRecent(p) ==
    /\ procs[p].pc = "recent_ids"
    /\ \E recent_tweet_ids \in RecentTweetIds(tweets_cache, procs[p].follower_id,
                                              procs[p].keep_count) :
          procs' = [procs EXCEPT ![p].pc = "delete",
                                 ![p].recent_tweet_ids = recent_tweet_ids]
    /\ UNCHANGED <<storeVars, pc, serviceVars, runVars, parseVars, analyzerVars>>

\* The rows the DELETE of process p deletes when it runs in this state.
Doomed(p) ==
    LET keep == keep_ids(procs[p].sent_tweet_ids, procs[p].recent_tweet_ids)
    IN IF keep = {} THEN {}
       ELSE deleted_rows(tweets_cache, procs[p].follower_id, keep)

\* cleanup_old_tweets: the DELETE, for a keep_ids that is not empty, and its
\* commit
Delete(p) ==
    /\ procs[p].pc = "delete"
    /\ tweets_cache' = tweets_cache \ Doomed(p)
    /\ procs' = Returned(p)
    /\ UNCHANGED <<followers, followers_seq, tweets_seq, stored, analysis_updated,
                   marked_sent, pc, serviceVars, runVars, parseVars, analyzerVars>>

\* process_follower_tweets after store_tweet: analyze_with_ai and
\* update_analysis_result
UpdateAnalysis(p, analysis_text) ==
    /\ procs[p].pc = "update"
    /\ LET out == update_analysis_result(tweets_cache, procs[p].tweet.tweet_id,
                                         analysis_text)
       IN /\ tweets_cache' = out.cache
          /\ analysis_updated' =
                IF out.ret THEN analysis_updated \cup {procs[p].tweet.tweet_id}
                ELSE analysis_updated
    /\ procs' = [procs EXCEPT ![p].pc = "message"]
    /\ UNCHANGED <<followers, followers_seq, tweets_seq, stored, marked_sent,
                   pc, serviceVars, runVars, parseVars, analyzerVars>>

\* The rest of the turn of process_follower_tweets for the tweet of process
\* p: format_tweet_message, send_message, which returns ok, and mark_as_sent
\* if it does.  An exception of format_tweet_message ends the turn, and the
\* loop, before anything is sent.  delivered says whether mark_as_sent was
\* called and returned True.
deliver(cache, username, tweet, analysis_text, ok, now) ==
    LET message == format_tweet_message(<<username, tweet, analysis_text>>)
        sent == mark_as_sent(cache, tweet.tweet_id, now)
    IN IF message.raised # "none" \/ ~ok
       THEN [cache |-> cache, delivered |-> FALSE]
       ELSE [cache |-> sent.cache, delivered |-> sent.ret]

Deliver(p, analysis_text, ok, now) ==
    /\ procs[p].pc = "message"
    /\ LET out == deliver(tweets_cache, procs[p].username, procs[p].tweet,
                          analysis_text, ok, now)
       IN /\ tweets_cache' = out.cache
          /\ marked_sent' = IF out.delivered
                            THEN marked_sent \cup {procs[p].tweet.tweet_id}
                            ELSE marked_sent
    /\ procs' = [procs EXCEPT ![p] = Idle]
    /\ UNCHANGED <<followers, followers_seq, tweets_seq, stored, analysis_updated,
                   pc, serviceVars, runVars, parseVars, analyzerVars>>

\* mark_as_sent(tweet_id), called by itself: one UPDATE and its commit
MarkAsSentBy(p, tweet_id, now) ==
    /\ procs[p].pc = "idle"
    /\ LET out == mark_as_sent(tweets_cache, tweet_id, now)
       IN /\ tweets_cache' = out.cache
          /\ marked_sent' = IF out.ret THEN marked_sent \cup {tweet_id}
                            ELSE marked_sent
    /\ UNCHANGED <<followers, followers_seq, tweets_seq, stored, analysis_updated,
                   callerVars>>

ConcurrentNext ==
    \E p \in Procs :
       \/ \E tweet \in RacedTweets : TweetExists(p, tweet)
       \/ Insert(p)
       \/ CleanupStart(p, RacedFollower.id)
       \/ Count(p)
       \/ SelectSent(p)
       \/ SelectRecent(p)
       \/ Delete(p)
       \/ \E analysis_text \in AnalysisResults : UpdateAnalysis(p, analysis_text)
       \/ \E analysis_text \in AnalysisResults, ok \in BOOLEAN, now \in Nows :
             Deliver(p, analysis_text, ok, now)
       \/ \E tweet_id \in TargetIds, now \in Nows : MarkAsSentBy(p, tweet_id, now)

ConcurrentSpec == ConcurrentInit /\ [][ConcurrentNext]_vars

\* ------------------------------------------------ properties of the races
\* C32, as first made: a DELETE of cleanup_old_tweets never deletes a row
\* that is sent when the DELETE runs.
C32_PruneAtomic ==
    \A p \in Procs :
        procs[p].pc = "delete" => \A r \in Doomed(p) : ~r.is_sent_to_telegram

\* C32: the DELETE of cleanup_old_tweets deletes rows of its follower only,
\* and none of the rows that the method read as sent or as most recent; a
\* row it deletes that is sent was marked by another process after the
\* method read the sent rows.
C32_PruneKeepsWhatItRead ==
    \A p \in Procs :
        procs[p].pc = "delete" =>
           \A r \in Doomed(p) :
              /\ r.follower_id = procs[p].follower_id
              /\ r.id \notin procs[p].sent_tweet_ids
              /\ r.id \notin procs[p].recent_tweet_ids

\* One process has marked b1 sent between the reads and the DELETE of the
\* other, and the DELETE has deleted it.
C32_Witness ==
    /\ "b1" \in marked_sent
    /\ ~tweet_exists(tweets_cache, "b1")
    /\ \A p \in Procs : procs[p].pc # "delete"

\* Both processes are in process_follower_tweets for the same tweet: each
\* found that tweet_exists was False before the other had stored it.
Raced ==
    /\ \A p \in Procs : procs[p].call = "process_follower_tweets"
    /\ \A p, q \in Procs : procs[p].tweet = procs[q].tweet

\* C33: two runs race on the insert: when both have found tweet x missing,
\* both store it, and each of them can go on to deliver it (there are
\* results of send_message with which its turn ends with x marked sent).
C33_RaceStoresAndDelivers ==
    Raced =>
       \A p \in Procs :
          procs[p].pc = "message" =>
             \E analysis_text \in AnalysisResults, ok \in BOOLEAN, now \in Nows :
                deliver(tweets_cache, procs[p].username, procs[p].tweet,
                        analysis_text, ok, now).delivered

\* Both processes found t1 missing and both have stored it: two rows hold t1.
C33_TwoRows ==
    /\ Raced
    /\ \A p \in Procs : procs[p].pc \in {"update", "message"}
    /\ Cardinality({r \in tweets_cache : r.tweet_id = "t1"}) = 2

\* ------------------------------------------- the flags of a stored row
\* From table `before` to table `after` no row loses a flag: the row of the
\* same id, when it is still stored, is analyzed if it was and sent if it
\* was; and a row that is gone was not sent.
FlagsKept(before, after) ==
    \A r \in before :
        LET now_stored == {x \in after : x.id = r.id}
        IN  /\ \A x \in now_stored :
                  /\ r.is_analyzed => x.is_analyzed
                  /\ r.is_sent_to_telegram => x.is_sent_to_telegram
            /\ now_stored = {} => ~r.is_sent_to_telegram

\* C39: the flags are monotone: store_tweet, update_analysis_result,
\* mark_as_sent, cleanup_old_tweets and run_maintenance never turn
\* is_analyzed or is_sent_to_telegram of a stored row from true to false,
\* and the rows that the cleanup deletes (called by itself, by store_tweet
\* or by run_maintenance) are rows that are not sent.
C39_FlagsMonotone ==
    /\ \A tweet \in Tweets, follower_id \in FollowerIds :
          \A out \in store_tweet(tweets_cache, tweets_seq, tweet, follower_id) :
              FlagsKept(tweets_cache, out.cache)
    /\ \A x \in TargetIds \cup {"absent"} :
          /\ \A a \in AnalysisResults :
                FlagsKept(tweets_cache,
                          update_analysis_result(tweets_cache, x, a).cache)
          /\ \A now \in Nows :
                FlagsKept(tweets_cache, mark_as_sent(tweets_cache, x, now).cache)
    /\ \A follower_id \in FollowerIds, keep_count \in KeepCounts :
          \A out \in cleanup_old_tweets(tweets_cache, follower_id, keep_count) :
              FlagsKept(tweets_cache, out.cache)
    /\ \A out \in run_maintenance(tweets_cache, followers) :
          FlagsKept(tweets_cache, out.cache)

\* An analyzed row has been marked sent, an analyzed row that is not sent is
\* stored beside it, and a cleanup has deleted rows.
C39_Witness ==
    /\ SomeRowDeleted
    /\ analysis_updated # {}
    /\ \E r \in tweets_cache :
          /\ r.tweet_id \in marked_sent
          /\ r.is_analyzed /\ r.is_sent_to_telegram
    /\ \E r \in tweets_cache : r.is_analyzed /\ ~r.is_sent_to_telegram

\* ------------------------------------------------ what a store leaves alone
\* The rows of the followers other than follower_id.
RowsOfOthers(cache, follower_id) == {r \in cache : r.follower_id # follower_id}

\* store_tweet and cleanup_old_tweets for follower_id leave the rows of every
\* other follower as they were.
OthersUntouched ==
    /\ \A tweet \in Tweets, follower_id \in FollowerIds :
          \A out \in store_tweet(tweets_cache, tweets_seq, tweet, follower_id) :
              RowsOfOthers(out.cache, follower_id)
                 = RowsOfOthers(tweets_cache, follower_id)
    /\ \A follower_id \in FollowerIds, keep_count \in KeepCounts :
          \A out \in cleanup_old_tweets(tweets_cache, follower_id, keep_count) :
              RowsOfOthers(out.cache, follower_id)
                 = RowsOfOthers(tweets_cache, follower_id)

\* C40: store_tweet(tweet, S) and cleanup_old_tweets(S, k) leave the rows of
\* every other follower unchanged, and a store_tweet of a tweet_id that is
\* already stored fails: it returns None, changes nothing and runs no
\* cleanup.
C40_FrameAndFailedStore ==
    /\ OthersUntouched
    /\ \A tweet \in Tweets, follower_id \in FollowerIds :
          tweet_exists(tweets_cache, tweet.tweet_id) =>
             \A out \in store_tweet(tweets_cache, tweets_seq, tweet, follower_id) :
                 /\ out.ret = NoneId
                 /\ out.cache = tweets_cache

\* ------------------------------------------------------- the analysis call
\* The provider names given to AnalyzerService, and str.lower of each.
Providers == {"ollama", "Ollama", "claude", "CLAUDE", "gpt"}

lower(provider) ==
    CASE provider = "Ollama" -> "ollama"
      [] provider = "CLAUDE" -> "claude"
      [] OTHER -> provider

\* The text of the model's answer in the body of a response: a string, no
\* such key, or null.
MissingContent == "<missing>"

NoneContent == "<None>"

Contents == {"relevant", "<think>no</think> relevant", "<b>relevant</b>", ""}

\* _remove_thinking_section: the text without its <think> sections, without
\* tags, with runs of whitespace collapsed and stripped.
remove_thinking_section(text) ==
    CASE text = "<think>no</think> relevant" -> "relevant"
      [] text = "<b>relevant</b>" -> "relevant"
      [] OTHER -> text

\* What requests.post gives: a response (its status code, whether its body
\* is JSON, the content of the answer in it) or an exception.
NoException == [class |-> NULL, message |-> NULL]

StatusCodes == {200, 400, 404, 500, 503}

OllamaResponses ==
    [kind : {"response"}, status_code : {200}, json : BOOLEAN,
     content : Contents \cup {MissingContent, NoneContent},
     exception : {NoException}]
    \cup [kind : {"response"}, status_code : StatusCodes \ {200},
          json : {FALSE}, content : {MissingContent},
          exception : {NoException}]

RequestExceptions ==
    {[class |-> "Timeout", message |-> "Read timed out"],
     [class |-> "ConnectionError", message |-> "Connection refused"],
     [class |-> "RuntimeError", message |-> "boom"]}

Replies ==
    OllamaResponses
    \cup [kind : {"exception"}, status_code : {0}, json : {FALSE},
          content : {MissingContent}, exception : RequestExceptions]

\* The exception that handling a 200 response raises: response.json() of a
\* body that is not JSON, re.sub of a content that is None.
Decoded(reply) ==
    IF ~reply.json
    THEN [class |-> "ValueError", message |-> "Expecting value"]
    ELSE IF reply.content = NoneContent
         THEN [class |-> "TypeError",
               message |-> "expected string or bytes-like object"]
         ELSE NoException

\* The answer in a decoded body: .get("content", "").
content_of(reply) ==
    IF reply.content = MissingContent THEN "" ELSE reply.content

\* The except clauses after the try of analyze_with_ollama and of
\* analyze_with_claude, in the order Python tries them.
ollama_clauses_without_exception == <<"Timeout", "ConnectionError">>

OllamaClauses == <<"Timeout", "ConnectionError", "Exception">>

ClaudeClauses == <<"Exception">>

\* The first clause that catches the exception, NULL when none does: every
\* class here is a subclass of Exception.
except_clause(clauses, exception) ==
    LET matching == {i \in 1..Len(clauses) :
                        \/ clauses[i] = exception.class
                        \/ clauses[i] = "Exception"}
    IN  IF matching = {} THEN NULL
        ELSE clauses[CHOOSE i \in matching : \A j \in matching : i <= j]

\* What a method returns: the dictionary's "error" (NULL when the key is
\* absent) and its "analysis".
Returns(a, error, analysis) ==
    [a EXCEPT !.pc = "done",
              !.result = [error |-> error, analysis |-> analysis]]

\* An exception that no clause catches leaves the method.
Escapes(a, exception) ==
    [a EXCEPT !.pc = "raised", !.raised = exception.class]

\* retry_count += 1, then either a sleep and a longer delay (or timeout)
\* for the next turn of the loop, or the return of the error.
retry(a, field, error, analysis) ==
    LET n == a.retry_count + 1
    IN  IF n <= MaxRetries
        THEN [a EXCEPT !.retry_count = n,
                       !.sleeps = @ + 1,
                       ![field] = TimesOneAndAHalf(@)]
        ELSE Returns([a EXCEPT !.retry_count = n], error, analysis)

\* One turn of the loop of analyze_with_ollama: one requests.post and the
\* handling of what it gave.
ollama_attempt(a, reply) ==
    LET b == [a EXCEPT !.posts = @ + 1]
        exception ==
            IF reply.kind = "exception" THEN reply.exception
            ELSE IF reply.status_code = 200 THEN Decoded(reply)
            ELSE NoException
        clause == except_clause(OllamaClauses, exception)
    IN  IF exception # NoException
        THEN CASE clause = "Timeout" ->
                    retry(b, "timeout", "Timeout after 3 retries",
                          "Error: Request timed out")
               [] clause = "ConnectionError" ->
                    retry(b, "retry_delay", "Connection error after 3 retries",
                          "Error: Connection failed")
               [] clause = "Exception" ->
                    retry(b, "retry_delay", exception.message,
                          "Error: " \o exception.message)
               [] OTHER -> Escapes(b, exception)
        ELSE IF reply.status_code = 200
        THEN Returns(b, NULL, remove_thinking_section(content_of(reply)))
        ELSE IF reply.status_code = 404
        THEN Returns(b, "Model not found", "Error: Model not found")
        ELSE IF reply.status_code >= 500
        THEN retry(b, "retry_delay", "Ollama server error after 3 retries",
                   "Error: Server error")
        ELSE Returns(b, "Request failed with status 400",
                     "Error: Request failed")

\* The try of analyze_with_claude: the download of the image when there is
\* one (its failure is caught and ignored), one requests.post,
\* raise_for_status and the decoding of the answer.
claude_request(a, reply) ==
    LET b == [a EXCEPT !.posts = @ + 1,
                       !.gets = IF a.image_url THEN @ + 1 ELSE @]
        exception ==
            IF reply.kind = "exception" THEN reply.exception
            ELSE IF reply.status_code >= 400
                 THEN [class |-> "HTTPError", message |-> "Client Error"]
                 ELSE Decoded(reply)
        clause == except_clause(ClaudeClauses, exception)
    IN  IF exception # NoException
        THEN IF clause = "Exception"
             THEN Returns(b, exception.message, "Error: " \o exception.message)
             ELSE Escapes(b, exception)
        ELSE Returns(b, NULL, remove_thinking_section(content_of(reply)))

\* analyze_with_ai up to its first request: the choice of the method by the
\* provider's name, and the return of analyze_with_claude without a key.
AnalyzeWithAi(provider, api_key, image_url) ==
    /\ pc = "analyzing"
    /\ analyzer.pc = "idle"
    /\ analyzer' =
          LET a == [NotCalled EXCEPT !.provider = provider,
                                     !.api_key = api_key,
                                     !.image_url = image_url]
          IN  IF lower(provider) = "claude"
              THEN IF ~api_key
                   THEN Returns(a, "No API key", "Error: No API key configured")
                   ELSE [a EXCEPT !.pc = "claude"]
              ELSE [a EXCEPT !.pc = "ollama"]
    /\ UNCHANGED <<storeVars, pc, serviceVars, runVars, parseVars, procVars>>

OllamaRequest(reply) ==
    /\ pc = "analyzing"
    /\ analyzer.pc = "ollama"
    /\ analyzer.retry_count <= MaxRetries
    /\ analyzer' = ollama_attempt(analyzer, reply)
    /\ UNCHANGED <<storeVars, pc, serviceVars, runVars, parseVars, procVars>>

ClaudeRequest(reply) ==
    /\ pc = "analyzing"
    /\ analyzer.pc = "claude"
    /\ analyzer' = claude_request(analyzer, reply)
    /\ UNCHANGED <<storeVars, pc, serviceVars, runVars, parseVars, procVars>>

\* The analyzer alone: nothing else of the program takes part in a call of
\* analyze_with_ai.
AnalyzerSpecInit ==
    /\ followers = {}
    /\ followers_seq = 0
    /\ tweets_cache = {}
    /\ tweets_seq = 0
    /\ stored = 0
    /\ analysis_updated = {}
    /\ marked_sent = {}
    /\ ServiceInit
    /\ RunInit
    /\ ProcsInit
    /\ AnalyzerInit
    /\ ParserInit
    /\ pc = "analyzing"

AnalyzerNext ==
    \/ \E provider \in Providers, api_key \in BOOLEAN, image_url \in BOOLEAN :
          AnalyzeWithAi(provider, api_key, image_url)
    \/ \E reply \in Replies : OllamaRequest(reply)
    \/ \E reply \in Replies : ClaudeRequest(reply)

AnalyzerSpec == AnalyzerSpecInit /\ [][AnalyzerNext]_vars

\* ------------------------------------------- properties of the analysis call
\* The strings that the methods put under "analysis" when they fail.
ErrorMarkers ==
    {"Error: Model not found", "Error: Server error", "Error: Request failed",
     "Error: Request timed out", "Error: Connection failed",
     "Error: No API key configured"}
    \cup {"Error: " \o m : m \in {"boom", "Expecting value", "Client Error",
                                  "Read timed out", "Connection refused",
                                  "expected string or bytes-like object"}}

\* The strings that the methods put under "analysis" when they succeed.
Answers == {remove_thinking_section(content) : content \in Contents \cup {""}}

\* C37: analyze_with_ai terminates with a result: whatever the requests give
\* (server errors, timeouts, connection errors, other exceptions), no
\* exception leaves the call, it makes at most max_retries + 1 requests
\* (every turn of the retry loop makes one and counts it, and the loop is
\* left once max_retries is passed), and what it returns has a string under
\* "analysis", which is an error marker whenever the call failed.
C37_AnalysisAlwaysReturned ==
    /\ analyzer.pc # "raised"
    /\ analyzer.posts <= MaxRetries + 1
    /\ analyzer.pc = "ollama" =>
          /\ analyzer.posts = analyzer.retry_count
          /\ analyzer.retry_count <= MaxRetries
    /\ analyzer.pc = "done" =>
          /\ analyzer.result.analysis \in Answers \cup ErrorMarkers
          /\ analyzer.result.error # NULL =>
                analyzer.result.analysis \in ErrorMarkers

\* The retries are used up: max_retries + 1 requests failed, with a timeout
\* among them, and the call returned its error marker.
C37_Witness ==
    /\ analyzer.pc = "done"
    /\ analyzer.posts = MaxRetries + 1
    /\ analyzer.timeout # Seconds(Timeout)
    /\ analyzer.result.analysis \in ErrorMarkers

====
